---- MODULE Spec2Model ----
(***************************************************************************)
(* Eligibility decision engine of the gun-registry adapter                 *)
(* (adapter/core/engine.py).                                               *)
(*                                                                         *)
(* Numbers: every confidence and score of the program is a float in        *)
(* [0,1]; here it is an integer number of hundredths (0.5 is 50).  The     *)
(* aggregate confidence 0.4*p + 0.4*r + 0.2*l is kept exact as the integer *)
(* 4*p + 4*r + 2*l, a number of thousandths (1.0 is 1000).                 *)
(*                                                                         *)
(* Strings the program inspects (the DOB, a record's outcome) are          *)
(* sequences of one-character strings, so that parsing and case folding    *)
(* are computed; strings the program only builds (rationale entries) are   *)
(* TLA+ strings.                                                           *)
(***************************************************************************)
EXTENDS Integers, Sequences, FiniteSets, TLC

VARIABLES
    ocr_result,        \* OCRResult given to _make_decision
    risk_assessment,   \* RiskAssessment given to _make_decision
    linkage_result,    \* LinkageResult given to _make_decision
    now,               \* calendar date of datetime.now()
    pc,                \* "decide" before the call of _make_decision and
                       \* "done" after it; "link" before the call of link
                       \* and "linked" after it
    result,            \* what _make_decision returned
    applicant,         \* the applicant dict given to link
    nics_records,      \* the list of NICS records given to link
    threshold,         \* ProbabilisticLinkageEngine.threshold, in hundredths
    link_result,       \* the LinkageResult link returned
    nics_record,       \* the record given to _calculate_field_scores
    scores,            \* the dict _calculate_field_scores returned
    raised,            \* the exception the call raised, "none" if it returned
    query,             \* the query given to fuzzy_match
    candidates,        \* the candidates given to fuzzy_match
    fuzzy_threshold,   \* the threshold given to fuzzy_match, in hundredths
    ambiguity_threshold,  \* RapidFuzzMatcher.ambiguity_threshold
    matches,           \* the list fuzzy_match returned
    request,           \* the EligibilityRequest given to check_eligibility
    response,          \* the HTTP response of check_eligibility
    engine_invoked,    \* whether the handler called assess_eligibility
    image,             \* what the image functions find in the ID image
    settings,          \* the settings extract reads and the adapter's
                       \* confidence threshold
    calls,             \* the calls an assessment has made, in order
    engine,            \* the module-level engine of routes.py: 0 for None,
                       \* else the position of the engine in engines
    engines,           \* the EligibilityEngine objects constructed so far
    runs,              \* the concurrent requests: position, inputs, results
    frames             \* the locals of the calls of link

vars == <<ocr_result, risk_assessment, linkage_result, now, pc, result,
          applicant, nics_records, threshold, link_result, nics_record,
          scores, raised, query, candidates, fuzzy_threshold,
          ambiguity_threshold, matches, request, response, engine_invoked,
          image, settings, calls, engine, engines, runs, frames>>

\* the variables of the decision run, of the linkage run and of the scoring
\* run, pc apart
decideVars == <<ocr_result, risk_assessment, linkage_result, now, result>>

linkVars == <<nics_records, threshold, link_result>>

scoreVars == <<nics_record, scores>>

\* the variables of the fuzzy matching run
fuzzyVars ==
    <<query, candidates, fuzzy_threshold, ambiguity_threshold, matches>>

\* the variables of the request handler
apiVars == <<request, response, engine_invoked>>

\* the variables of one assessment, beside those of its steps
assessVars == <<image, settings, calls>>

\* the variables of the concurrent requests
concurrentVars == <<engine, engines, runs, frames>>

\* the variables the concurrent requests leave alone
coreVars ==
    <<decideVars, pc, applicant, raised, linkVars, scoreVars, fuzzyVars,
      apiVars, assessVars>>

\* the variables of the service around the core: no core run changes them
serviceVars == <<apiVars, assessVars, concurrentVars>>

\* Python's None where a string is expected (a missing key read with .get):
\* no character sequence equals it, its one element is not a character.
None == <<"None">>

\* Python's None where a record (a dict) is expected.
NoneDict == [none |-> TRUE]

\* dict.get(key): the value, or None for a missing key
Get(dict, key) == IF key \in DOMAIN dict THEN dict[key] ELSE None

----------------------------------------------------------------------------
(* Strings as character sequences *)

Digits == <<"0", "1", "2", "3", "4", "5", "6", "7", "8", "9">>

Uppers == <<"A", "B", "C", "D", "E", "F", "G", "H", "I", "J", "K", "L", "M",
            "N", "O", "P", "Q", "R", "S", "T", "U", "V", "W", "X", "Y", "Z">>

Lowers == <<"a", "b", "c", "d", "e", "f", "g", "h", "i", "j", "k", "l", "m",
            "n", "o", "p", "q", "r", "s", "t", "u", "v", "w", "x", "y", "z">>

IsDigit(c) == \E i \in 1..10 : Digits[i] = c

DigitVal(c) == (CHOOSE i \in 1..10 : Digits[i] = c) - 1

\* str.lower() on one character
LowerChar(c) ==
    IF \E i \in 1..26 : Uppers[i] = c
    THEN Lowers[CHOOSE i \in 1..26 : Uppers[i] = c]
    ELSE c

\* str.lower()
Lower(s) == [i \in 1..Len(s) |-> LowerChar(s[i])]

\* the text of a character sequence, as it appears inside an f-string
RECURSIVE Text(_)
Text(s) == IF s = <<>> THEN "" ELSE Head(s) \o Text(Tail(s))

\* int() of a run of digits
RECURSIVE DigitsToNat(_)
DigitsToNat(s) ==
    IF s = <<>> THEN 0
    ELSE 10 * DigitsToNat(SubSeq(s, 1, Len(s) - 1)) + DigitVal(s[Len(s)])

IsDigits(s) == Len(s) > 0 /\ \A i \in 1..Len(s) : IsDigit(s[i])

\* f"{x:.2f}" of a number of hundredths
Fmt2(x) ==
    ToString(x \div 100) \o "." \o ToString((x % 100) \div 10) \o ToString(x % 10)

----------------------------------------------------------------------------
(* Calendar arithmetic of datetime *)

IsLeap(y) == (y % 4 = 0 /\ y % 100 # 0) \/ y % 400 = 0

DaysInMonth(y, m) ==
    IF m = 2 THEN (IF IsLeap(y) THEN 29 ELSE 28)
    ELSE IF m \in {4, 6, 9, 11} THEN 30 ELSE 31

DaysBeforeMonth(y, m) ==
    <<0, 31, 59, 90, 120, 151, 181, 212, 243, 273, 304, 334>>[m]
        + (IF m > 2 /\ IsLeap(y) THEN 1 ELSE 0)

DaysBeforeYear(y) ==
    (y - 1) * 365 + ((y - 1) \div 4) - ((y - 1) \div 100) + ((y - 1) \div 400)

\* date.toordinal(): the subtraction of two datetimes counts these days
ToOrdinal(date) ==
    DaysBeforeYear(date.y) + DaysBeforeMonth(date.y, date.m) + date.d

\* what StrpTime yields where datetime.strptime raises ValueError
ValueError == [y |-> 0, m |-> 0, d |-> 0]

\* datetime.strptime(dob, "%Y-%m-%d")
StrpTime(s) ==
    LET dashes == {i \in 1..Len(s) : s[i] = "-"}
    IN  IF Cardinality(dashes) # 2 THEN ValueError
        ELSE
          LET i1 == CHOOSE i \in dashes : \A j \in dashes : i <= j
              i2 == CHOOSE i \in dashes : \A j \in dashes : j <= i
              ys == SubSeq(s, 1, i1 - 1)
              ms == SubSeq(s, i1 + 1, i2 - 1)
              ds0 == SubSeq(s, i2 + 1, Len(s))
              \* %d also accepts a blank in place of the leading zero
              ds == IF Len(ds0) = 2 /\ ds0[1] = " " THEN Tail(ds0) ELSE ds0
          IN  IF /\ IsDigits(ys) /\ Len(ys) = 4
                 /\ IsDigits(ms) /\ Len(ms) <= 2
                 /\ IsDigits(ds) /\ Len(ds) <= 2
              THEN
                LET y == DigitsToNat(ys)
                    m == DigitsToNat(ms)
                    d == DigitsToNat(ds)
                IN  IF /\ y >= 1
                       /\ m \in 1..12
                       /\ d >= 1
                       /\ d <= DaysInMonth(y, m)
                    THEN [y |-> y, m |-> m, d |-> d]
                    ELSE ValueError
              ELSE ValueError

----------------------------------------------------------------------------
(* EligibilityEngine._calculate_age *)

\* Optional[int]: None, or an age in years
NoAge == [known |-> FALSE, years |-> 0]

Age(n) == [known |-> TRUE, years |-> n]

\* the age, or NoAge for a missing, blank or unparseable DOB
_calculate_age(dob, today) ==
    IF dob = None \/ dob = <<>> THEN NoAge
    ELSE
      LET dob_date == StrpTime(dob)
      IN  IF dob_date = ValueError THEN NoAge
          ELSE Age((ToOrdinal(today) - ToOrdinal(dob_date)) \div 365)

----------------------------------------------------------------------------
(* EligibilityEngine._make_decision *)

\* settings.model_b_risk_threshold, in hundredths
model_b_risk_threshold == 70

\* the OCR confidence below which rule 1 asks for a manual review
MinOcrConfidence == 50

\* the minimum age of rule 2
MinAge == 21

\* overall_confidence with the linkage term weighted 0.4
overall_confidence_EqualWeights(ocr, risk, linkage) ==
    4 * ocr.confidence + 4 * risk.confidence + 4 * linkage.confidence

\* 0.4 * ocr + 0.4 * risk + 0.2 * linkage, in thousandths
overall_confidence(ocr, risk, linkage) ==
    4 * ocr.confidence + 4 * risk.confidence + 2 * linkage.confidence

\* Rule 1 fires
LowOcrConfidence(ocr) == ocr.confidence < MinOcrConfidence

\* Underage with the age limit 18
Underage_Limit18(age) == age.known /\ age.years < 18

\* Rule 2 denies
Underage(age) == age.known /\ age.years < MinAge

\* HighRisk with the threshold itself counted as high
HighRisk_Inclusive(risk) == risk.risk_score >= model_b_risk_threshold

\* Rule 3 fires
HighRisk(risk) == risk.risk_score > model_b_risk_threshold

\* HasBackgroundCheck looking at best_match alone
HasBackgroundCheck_AnyRecord(linkage) ==
    /\ linkage.best_match # NoneDict
    /\ DOMAIN linkage.best_match # {}

\* Rule 4 applies: linkage_result.matched and linkage_result.best_match
HasBackgroundCheck(linkage) ==
    /\ linkage.matched
    /\ linkage.best_match # NoneDict
    /\ DOMAIN linkage.best_match # {}

\* Outcome without the case folding
Outcome_AsWritten(linkage) ==
    IF "outcome" \in DOMAIN linkage.best_match
    THEN linkage.best_match["outcome"]
    ELSE <<>>

\* best_match.get("outcome", "").lower()
Outcome(linkage) ==
    LET raw == IF "outcome" \in DOMAIN linkage.best_match
               THEN linkage.best_match["outcome"]
               ELSE <<>>
    IN  Lower(raw)

denied == <<"d", "e", "n", "i", "e", "d">>

approved == <<"a", "p", "p", "r", "o", "v", "e", "d">>

\* the rationale entries
OcrLowText(ocr) == "OCR confidence too low: " \o Fmt2(ocr.confidence)

AgeIneligibleText(age) ==
    "Age ineligible: " \o ToString(age.years) \o " years old (must be 21+)"

AgeEligibleText(age) == "Age eligible: " \o ToString(age.years) \o " years old"

AgeUnknownText == "Age unknown (DOB not extracted)"

CheckFailedText(linkage) ==
    "Background check failed: denied in NICS records (confidence: "
        \o Fmt2(linkage.confidence) \o ")"

CheckPassedText(linkage) ==
    "Background check passed (confidence: " \o Fmt2(linkage.confidence) \o ")"

CheckUnclearText(outcome) == "Background check result unclear: " \o Text(outcome)

RiskReviewText == "Risk assessment flagged for manual review"

LinkageReviewText == "Linkage flagged for manual review (ambiguous match)"

TamperText == "ID tampering detected"

AllPassedText == "All checks passed"

\* the tuple _make_decision returns
Return(decision, confidence, rationale, requires_review) ==
    [decision |-> decision, confidence |-> confidence,
     rationale |-> rationale, requires_manual_review |-> requires_review]

\* ReviewRules with the linkage flag looked at before the risk flag
ReviewRules_LinkageFirst(ocr, risk, linkage, confidence, rationale4, review4) ==
    LET rationale5a == IF linkage.requires_review
                       THEN Append(rationale4, LinkageReviewText)
                       ELSE rationale4
        review5a == review4 \/ linkage.requires_review
        rationale5b == IF risk.requires_manual_review
                       THEN Append(rationale5a, RiskReviewText)
                       ELSE rationale5a
        review5b == review5a \/ risk.requires_manual_review
    IN  IF ocr.tamper_detected
        THEN Return("MANUAL_REVIEW", confidence,
                    Append(rationale5b, TamperText), TRUE)
        ELSE IF review5b
        THEN Return("MANUAL_REVIEW", confidence, rationale5b, TRUE)
        ELSE Return("APPROVED", confidence,
                    Append(rationale5b, AllPassedText), FALSE)

\* ReviewRules where the linkage flag adds its entry but raises no review
ReviewRules_LinkageFlagLost(ocr, risk, linkage, confidence, rationale4, review4) ==
    LET rationale5a == IF risk.requires_manual_review
                       THEN Append(rationale4, RiskReviewText)
                       ELSE rationale4
        review5a == review4 \/ risk.requires_manual_review
        rationale5b == IF linkage.requires_review
                       THEN Append(rationale5a, LinkageReviewText)
                       ELSE rationale5a
    IN  IF ocr.tamper_detected
        THEN Return("MANUAL_REVIEW", confidence,
                    Append(rationale5b, TamperText), TRUE)
        ELSE IF review5a
        THEN Return("MANUAL_REVIEW", confidence, rationale5b, TRUE)
        ELSE Return("APPROVED", confidence,
                    Append(rationale5b, AllPassedText), FALSE)

\* ReviewRules where tampering adds its entry without stopping
ReviewRules_TamperContinues(ocr, risk, linkage, confidence, rationale4, review4) ==
    LET rationale5a == IF risk.requires_manual_review
                       THEN Append(rationale4, RiskReviewText)
                       ELSE rationale4
        review5a == review4 \/ risk.requires_manual_review
        rationale5b == IF linkage.requires_review
                       THEN Append(rationale5a, LinkageReviewText)
                       ELSE rationale5a
        review5b == review5a \/ linkage.requires_review
        rationale5c == IF ocr.tamper_detected
                       THEN Append(rationale5b, TamperText)
                       ELSE rationale5b
    IN  IF review5b
        THEN Return("MANUAL_REVIEW", confidence, rationale5c, TRUE)
        ELSE Return("APPROVED", confidence,
                    Append(rationale5c, AllPassedText), FALSE)

\* Rules 5 to 7, reached with the rationale and review flag of rules 2 and 4
ReviewRules(ocr, risk, linkage, confidence, rationale4, review4) ==
    LET rationale5a == IF risk.requires_manual_review
                       THEN Append(rationale4, RiskReviewText)
                       ELSE rationale4
        review5a == review4 \/ risk.requires_manual_review
        rationale5b == IF linkage.requires_review
                       THEN Append(rationale5a, LinkageReviewText)
                       ELSE rationale5a
        review5b == review5a \/ linkage.requires_review
    IN  IF ocr.tamper_detected
        THEN Return("MANUAL_REVIEW", confidence,
                    Append(rationale5b, TamperText), TRUE)
        ELSE IF review5b
        THEN Return("MANUAL_REVIEW", confidence, rationale5b, TRUE)
        ELSE Return("APPROVED", confidence,
                    Append(rationale5b, AllPassedText), FALSE)

\* Rule 4 and what follows it
BackgroundRule(ocr, risk, linkage, confidence, rationale3, review3) ==
    IF HasBackgroundCheck(linkage)
    THEN
      LET outcome == Outcome(linkage)
      IN  IF outcome = denied
          THEN Return("DENIED", confidence,
                      Append(rationale3, CheckFailedText(linkage)), FALSE)
          ELSE IF outcome = approved
          THEN ReviewRules(ocr, risk, linkage, confidence,
                           Append(rationale3, CheckPassedText(linkage)), review3)
          ELSE ReviewRules(ocr, risk, linkage, confidence,
                           Append(rationale3, CheckUnclearText(outcome)), TRUE)
    ELSE ReviewRules(ocr, risk, linkage, confidence, rationale3, review3)

\* Rule 3 and what follows it
\* RiskRule handing the review flag on with the denial
RiskRule_KeepsFlag(ocr, risk, linkage, confidence, rationale2, review2) ==
    IF HighRisk(risk)
    THEN Return("DENIED", confidence, rationale2 \o risk.risk_factors, review2)
    ELSE BackgroundRule(ocr, risk, linkage, confidence, rationale2, review2)

RiskRule(ocr, risk, linkage, confidence, rationale2, review2) ==
    IF HighRisk(risk)
    THEN Return("DENIED", confidence, rationale2 \o risk.risk_factors, FALSE)
    ELSE BackgroundRule(ocr, risk, linkage, confidence, rationale2, review2)

\* AgeRule where an unknown age raises no review flag
AgeRule_UnknownUnflagged(ocr, risk, linkage, confidence, age) ==
    IF age.known
    THEN IF Underage(age)
         THEN Return("DENIED", confidence, <<AgeIneligibleText(age)>>, FALSE)
         ELSE RiskRule(ocr, risk, linkage, confidence,
                       <<AgeEligibleText(age)>>, FALSE)
    ELSE RiskRule(ocr, risk, linkage, confidence, <<AgeUnknownText>>, FALSE)

\* Rule 2 and what follows it
AgeRule(ocr, risk, linkage, confidence, age) ==
    IF age.known
    THEN IF Underage(age)
         THEN Return("DENIED", confidence, <<AgeIneligibleText(age)>>, FALSE)
         ELSE RiskRule(ocr, risk, linkage, confidence,
                       <<AgeEligibleText(age)>>, FALSE)
    ELSE RiskRule(ocr, risk, linkage, confidence, <<AgeUnknownText>>, TRUE)

\* _make_decision where rule 1 raises a review flag and goes on to rule 2
_make_decision_Rule1Continues(ocr, risk, linkage, extracted_data, today) ==
    LET confidence == overall_confidence(ocr, risk, linkage)
        later == AgeRule(ocr, risk, linkage, confidence,
                         _calculate_age(Get(extracted_data, "dob"), today))
    IN  IF LowOcrConfidence(ocr)
        THEN Return(IF later.decision = "APPROVED"
                    THEN "MANUAL_REVIEW" ELSE later.decision,
                    confidence, <<OcrLowText(ocr)>> \o later.rationale,
                    later.decision # "DENIED")
        ELSE later

\* Rule 1, and the whole evaluation
_make_decision(ocr, risk, linkage, extracted_data, today) ==
    LET confidence == overall_confidence(ocr, risk, linkage)
    IN  IF LowOcrConfidence(ocr)
        THEN Return("MANUAL_REVIEW", confidence, <<OcrLowText(ocr)>>, TRUE)
        ELSE AgeRule(ocr, risk, linkage, confidence,
                     _calculate_age(Get(extracted_data, "dob"), today))

----------------------------------------------------------------------------
(* RapidFuzzMatcher: the scores are whole percents, 100 is 1.0 *)

\* str.upper() on one character
UpperChar(c) ==
    IF \E i \in 1..26 : Lowers[i] = c
    THEN Uppers[CHOOSE i \in 1..26 : Lowers[i] = c]
    ELSE c

\* str.upper()
Upper(s) == [i \in 1..Len(s) |-> UpperChar(s[i])]

RECURSIVE LStrip(_)
LStrip(s) == IF s # <<>> /\ Head(s) = " " THEN LStrip(Tail(s)) ELSE s

RECURSIVE RStrip(_)
RStrip(s) ==
    IF s # <<>> /\ s[Len(s)] = " " THEN RStrip(SubSeq(s, 1, Len(s) - 1)) ELSE s

\* str.strip()
Strip(s) == RStrip(LStrip(s))

\* dict.get(key, default)
GetOr(dict, key, default) == IF key \in DOMAIN dict THEN dict[key] ELSE default

\* fuzz.token_set_ratio on the lower-case names of the model, rounded to a
\* whole percent: each unordered pair of different names with its score
TokenSetTable ==
    { <<<<"j", "a", "n", "e", " ", "s", "m", "i", "t", "h">>,
        <<"j", "o", "h", "n", " ", "d", "o", "e">>, 33>>,
      <<<<"j", "a", "n", "e", " ", "s", "m", "i", "t", "h">>,
        <<"j", "o", "n", " ", "d", "o", "e">>, 24>>,
      <<<<"j", "o", "h", "n", " ", "d", "o", "e">>,
        <<"j", "o", "n", " ", "d", "o", "e">>, 93>> }

\* fuzz.partial_ratio on the lower-case addresses of the model, likewise
PartialTable ==
    { <<<<"1", "2", "3", " ", "m", "a", "i", "n", " ", "s", "t">>,
        <<"1", "2", "3", " ", "m", "a", "i", "n", " ", "s", "t", "r", "e", "e", "t">>, 100>>,
      <<<<"1", "2", "3", " ", "m", "a", "i", "n", " ", "s", "t">>,
        <<"4", "5", "6", " ", "o", "a", "k", " ", "a", "v", "e">>, 32>>,
      <<<<"1", "2", "3", " ", "m", "a", "i", "n", " ", "s", "t", "r", "e", "e", "t">>,
        <<"4", "5", "6", " ", "o", "a", "k", " ", "a", "v", "e">>, 36>> }

\* the score a table gives to a pair of texts; equal texts score 100
TableScore(table, s1, s2) ==
    IF s1 = s2 THEN 100
    ELSE (CHOOSE t \in table :
            \/ t[1] = s1 /\ t[2] = s2
            \/ t[1] = s2 /\ t[2] = s1)[3]

\* RapidFuzzMatcher.match_score
match_score(str1, str2) ==
    IF str1 = <<>> \/ str2 = <<>> THEN 0
    ELSE TableScore(TokenSetTable, Lower(str1), Lower(str2))

\* RapidFuzzMatcher.match_score_partial
match_score_partial(str1, str2) ==
    IF str1 = <<>> \/ str2 = <<>> THEN 0
    ELSE TableScore(PartialTable, Lower(str1), Lower(str2))

\* the default of RapidFuzzMatcher.ambiguity_threshold
DefaultAmbiguityThreshold == 10

\* the score above which a match counts as a high-confidence match
HighConfidenceScore == 80

\* the pair fuzzy_match forms of a candidate and its score
MatchOf(q, candidate) ==
    <<candidate, TableScore(TokenSetTable, Lower(q), Lower(candidate))>>

\* the loop of fuzzy_match: the pairs that reach the threshold, in the
\* order of the candidates
RECURSIVE Collect(_, _, _)
Collect(q, cands, thr) ==
    IF cands = <<>> THEN <<>>
    ELSE (IF MatchOf(q, Head(cands))[2] >= thr
          THEN <<MatchOf(q, Head(cands))>>
          ELSE <<>>) \o Collect(q, Tail(cands), thr)

\* InsertDesc placing a pair before the pairs of equal score
InsertDesc_BeforeEqual(sorted, pair) ==
    LET k == Cardinality({ i \in 1..Len(sorted) : sorted[i][2] > pair[2] })
    IN  SubSeq(sorted, 1, k) \o <<pair>> \o SubSeq(sorted, k + 1, Len(sorted))

\* one step of list.sort(key = score, reverse = True), which is stable: the
\* pair goes behind the pairs of higher or equal score
InsertDesc(sorted, pair) ==
    LET k == Cardinality({ i \in 1..Len(sorted) : sorted[i][2] >= pair[2] })
    IN  SubSeq(sorted, 1, k) \o <<pair>> \o SubSeq(sorted, k + 1, Len(sorted))

\* matches.sort(key=lambda x: x[1], reverse=True)
RECURSIVE SortDesc(_)
SortDesc(pairs) ==
    IF pairs = <<>> THEN <<>>
    ELSE InsertDesc(SortDesc(SubSeq(pairs, 1, Len(pairs) - 1)),
                    pairs[Len(pairs)])

\* TooAmbiguous counting from the ambiguity threshold on
TooAmbiguous_Inclusive(sorted, limit) ==
    Cardinality({ i \in 1..Len(sorted) : sorted[i][2] > HighConfidenceScore })
      >= limit

\* more high-confidence matches than the ambiguity threshold allows
TooAmbiguous(sorted, limit) ==
    Cardinality({ i \in 1..Len(sorted) : sorted[i][2] > HighConfidenceScore })
      > limit

\* RapidFuzzMatcher.fuzzy_match: the list returned, or the exception raised
fuzzy_match(q, cands, thr, limit) ==
    IF q = <<>> \/ cands = <<>>
    THEN [raised |-> "none", matches |-> <<>>]
    ELSE LET sorted == SortDesc(Collect(q, cands, thr))
         IN  IF TooAmbiguous(sorted, limit)
             THEN [raised |-> "FuzzyMatchAmbiguousError", matches |-> <<>>]
             ELSE [raised |-> "none", matches |-> sorted]

----------------------------------------------------------------------------
(* ProbabilisticLinkageEngine: field scores are whole percents; the        *)
(* composite score and the confidence of a LinkageResult are               *)
(* ten-thousandths, 10000 is 1.0, and a threshold t in hundredths is the   *)
(* composite 100 * t                                                       *)

\* settings.linkage_manual_review_min and _max, in hundredths
linkage_manual_review_min == 70

linkage_manual_review_max == 90

\* the name score above which a record counts for the ambiguity check
AmbiguousNameScore == 80

\* an empty dict
EmptyDict == <<>>

\* _calculate_field_scores comparing the states as written
_calculate_field_scores_CaseSensitive(appl, record) ==
    LET applicant_name == Strip(GetOr(appl, "name", <<>>))
        record_name == Strip(GetOr(record, "name", <<>>))
        applicant_dob == Strip(GetOr(appl, "dob", <<>>))
        record_dob == Strip(GetOr(record, "dob", <<>>))
        applicant_state == Strip(GetOr(appl, "state", <<>>))
        record_state == Strip(GetOr(record, "state", <<>>))
        applicant_address == Strip(GetOr(appl, "address", <<>>))
        record_address == Strip(GetOr(record, "address", <<>>))
    IN  [ name |-> IF applicant_name # <<>> /\ record_name # <<>>
                   THEN match_score(applicant_name, record_name)
                   ELSE 0,
          dob |-> IF applicant_dob # <<>> /\ record_dob # <<>>
                  THEN (IF applicant_dob = record_dob THEN 100 ELSE 0)
                  ELSE 0,
          state |-> IF applicant_state # <<>> /\ record_state # <<>>
                    THEN (IF applicant_state = record_state THEN 100 ELSE 0)
                    ELSE 0,
          address |-> IF applicant_address # <<>> /\ record_address # <<>>
                      THEN match_score_partial(applicant_address, record_address)
                      ELSE 0 ]

_calculate_field_scores(appl, record) ==
    LET applicant_name == Strip(GetOr(appl, "name", <<>>))
        record_name == Strip(GetOr(record, "name", <<>>))
        applicant_dob == Strip(GetOr(appl, "dob", <<>>))
        record_dob == Strip(GetOr(record, "dob", <<>>))
        applicant_state == Upper(Strip(GetOr(appl, "state", <<>>)))
        record_state == Upper(Strip(GetOr(record, "state", <<>>)))
        applicant_address == Strip(GetOr(appl, "address", <<>>))
        record_address == Strip(GetOr(record, "address", <<>>))
    IN  [ name |-> IF applicant_name # <<>> /\ record_name # <<>>
                   THEN match_score(applicant_name, record_name)
                   ELSE 0,
          dob |-> IF applicant_dob # <<>> /\ record_dob # <<>>
                  THEN (IF applicant_dob = record_dob THEN 100 ELSE 0)
                  ELSE 0,
          state |-> IF applicant_state # <<>> /\ record_state # <<>>
                    THEN (IF applicant_state = record_state THEN 100 ELSE 0)
                    ELSE 0,
          address |-> IF applicant_address # <<>> /\ record_address # <<>>
                      THEN match_score_partial(applicant_address, record_address)
                      ELSE 0 ]

\* float arithmetic: for the field scores whose float sum 0.4 * name +
\* 0.3 * dob + 0.2 * state + 0.1 * address is not the double nearest to
\* the decimal sum, the number of units in the last place it lies above
\* (positive) or below (negative) that double: <<name, dob, state, address,
\* units>>, over the field scores of the model
FloatErrorTable ==
    { <<0, 0, 100, 36, 1>>, <<0, 0, 100, 100, 1>>, <<0, 100, 0, 32, -1>>,
      <<0, 100, 0, 36, -1>>, <<24, 0, 100, 0, 1>>, <<24, 0, 100, 32, 1>>,
      <<24, 100, 0, 32, 1>>, <<24, 100, 100, 0, 1>>, <<24, 100, 100, 32, 1>>,
      <<24, 100, 100, 36, 1>>, <<24, 100, 100, 100, 1>>, <<33, 0, 100, 100, 1>>,
      <<33, 100, 0, 32, -1>>, <<33, 100, 0, 36, -1>>, <<93, 0, 0, 0, 1>>,
      <<93, 0, 0, 36, 1>>, <<93, 0, 0, 100, 2>>, <<93, 0, 100, 0, 1>>,
      <<93, 0, 100, 32, 1>>, <<93, 0, 100, 36, 1>>, <<93, 100, 0, 32, 1>>,
      <<93, 100, 0, 36, 1>>, <<93, 100, 100, 0, 1>>, <<93, 100, 100, 32, 1>>,
      <<93, 100, 100, 36, 1>>, <<93, 100, 100, 100, 1>>, <<100, 0, 0, 32, 1>>,
      <<100, 0, 100, 0, 1>>, <<100, 0, 100, 32, 1>>, <<100, 0, 100, 36, 1>>,
      <<100, 0, 100, 100, 1>>, <<100, 100, 0, 100, -1>>, <<100, 100, 100, 0, -1>>,
      <<100, 100, 100, 32, -1>>, <<100, 100, 100, 36, -1>>, <<100, 100, 100, 100, -1>> }

FloatError(field_scores) ==
    LET hit == { t \in FloatErrorTable :
                   /\ t[1] = field_scores.name
                   /\ t[2] = field_scores.dob
                   /\ t[3] = field_scores.state
                   /\ t[4] = field_scores.address }
    IN  IF hit = {} THEN 0 ELSE (CHOOSE t \in hit : TRUE)[5]

\* 0.4 * name + 0.3 * dob + 0.2 * state + 0.1 * address as the float the
\* code computes: ten times the thousandths of the decimal sum, plus the
\* float error in the last digit
composite_score(field_scores) ==
    10 * (4 * field_scores.name + 3 * field_scores.dob
            + 2 * field_scores.state + 1 * field_scores.address)
      + FloatError(field_scores)

\* best_match, best_score and best_field_scores before the loop
NoBest ==
    [best_match |-> NoneDict, best_score |-> 0, best_field_scores |-> EmptyDict]

\* ScanStep keeping the first record that scores at all
ScanStep_FirstFound(appl, record, best) ==
    LET field_scores == _calculate_field_scores(appl, record)
        composite == composite_score(field_scores)
    IN  IF best.best_match = NoneDict /\ composite > best.best_score
        THEN [best_match |-> record, best_score |-> composite,
              best_field_scores |-> field_scores]
        ELSE best

\* one pass of the loop body, for one record
ScanStep(appl, record, best) ==
    LET field_scores == _calculate_field_scores(appl, record)
        composite == composite_score(field_scores)
    IN  IF composite > best.best_score
        THEN [best_match |-> record, best_score |-> composite,
              best_field_scores |-> field_scores]
        ELSE best

\* the loop over nics_records, from position i on
RECURSIVE Scan(_, _, _, _)
Scan(appl, records, i, best) ==
    IF i > Len(records) THEN best
    ELSE Scan(appl, records, i + 1, ScanStep(appl, records[i], best))

\* a string is truthy when it is not empty; a missing key reads as None
Truthy(dict, key) == key \in DOMAIN dict /\ dict[key] # <<>>

\* str() of a float given in hundredths
FloatText(x) ==
    ToString(x \div 100) \o "." \o ToString((x % 100) \div 10)
      \o (IF x % 10 = 0 THEN "" ELSE ToString(x % 10))

\* ", ".join(parts)
RECURSIVE JoinComma(_)
JoinComma(parts) ==
    IF Len(parts) = 0 THEN ""
    ELSE IF Len(parts) = 1 THEN parts[1]
    ELSE parts[1] \o ", " \o JoinComma(Tail(parts))

\* the entries of q that pass the test, in order
RECURSIVE Keep(_, _)
Keep(q, keep) ==
    IF q = <<>> THEN <<>>
    ELSE (IF keep[1] THEN <<q[1]>> ELSE <<>>) \o Keep(Tail(q), Tail(keep))

_document_assumptions(appl, record, field_scores, thr) ==
    LET fixed ==
          << "Name matching uses token_set_ratio to handle word order variations (e.g., 'John Doe' vs 'Doe, John')",
             "DOB requires exact match (no fuzzy matching on dates for safety)",
             "Confidence threshold set at " \o FloatText(thr)
               \o " (configurable via LINKAGE_CONFIDENCE_THRESHOLD env var)",
             "Weights: name=40%, DOB=30%, state=20%, address=10% (tunable based on field reliability)" >>
        has_record == record # NoneDict /\ DOMAIN record # {}
        missing_fields ==
          Keep(<< "name (applicant)", "DOB (applicant)", "state (applicant)",
                  "address (applicant)" >>,
               << ~Truthy(appl, "name"), ~Truthy(appl, "dob"),
                  ~Truthy(appl, "state"), ~Truthy(appl, "address") >>)
          \o (IF has_record
              THEN Keep(<< "name (NICS record)", "DOB (NICS record)",
                           "state (NICS record)", "address (NICS record)" >>,
                        << ~Truthy(record, "name"), ~Truthy(record, "dob"),
                           ~Truthy(record, "state"), ~Truthy(record, "address") >>)
              ELSE <<>>)
        missing == IF missing_fields # <<>>
                   THEN << "Missing fields (scored as 0.0): "
                             \o JoinComma(missing_fields) >>
                   ELSE <<>>
        low_name == IF GetOr(field_scores, "name", 0) < 50
                    THEN << "Low name match score - possible name variation or different person" >>
                    ELSE <<>>
        dob_mismatch ==
          IF /\ GetOr(field_scores, "dob", 0) = 0
             /\ Truthy(appl, "dob")
             /\ has_record
             /\ Truthy(record, "dob")
          THEN << "DOB mismatch: applicant DOB does not match NICS record" >>
          ELSE <<>>
    IN  fixed \o missing \o low_name \o dob_mismatch

\* the LinkageResult fields the model keeps
LinkageResult(matched, confidence, field_scores, assumptions, review, best) ==
    [matched |-> matched, confidence |-> confidence,
     field_scores |-> field_scores, assumptions |-> assumptions,
     requires_review |-> review, best_match |-> best]

\* what link returns for an empty list of records
EmptyPoolResult ==
    LinkageResult(FALSE, 0, EmptyDict,
                  <<"No NICS records available for matching">>, FALSE, NoneDict)

\* IsMatched with the threshold itself excluded
IsMatched_Strict(best_score, thr) == best_score > 100 * thr

\* matched = best_score >= self.threshold
IsMatched(best_score, thr) == best_score >= 100 * thr

\* InReviewRange with the lower end excluded
InReviewRange_Open(best_score) ==
    /\ 100 * linkage_manual_review_min < best_score
    /\ best_score < 100 * linkage_manual_review_max

\* self.manual_review_min <= best_score < self.manual_review_max
InReviewRange(best_score) ==
    /\ 100 * linkage_manual_review_min <= best_score
    /\ best_score < 100 * linkage_manual_review_max

\* more than one record has a name score above 0.8
AmbiguousNames(appl, records) ==
    Cardinality({ i \in 1..Len(records) :
                    _calculate_field_scores(appl, records[i]).name
                      > AmbiguousNameScore }) > 1

\* the part of link after the loop, given the best record the loop found
LinkFinish(appl, records, thr, best) ==
    LET assumptions == _document_assumptions(appl, best.best_match,
                                             best.best_field_scores, thr)
        matched == IsMatched(best.best_score, thr)
        requires_review == InReviewRange(best.best_score)
                             \/ AmbiguousNames(appl, records)
    IN  LinkageResult(matched, best.best_score, best.best_field_scores,
                      assumptions, requires_review,
                      IF matched THEN best.best_match ELSE NoneDict)

\* the part of link after the empty-list check
LinkScan(appl, records, thr) ==
    LinkFinish(appl, records, thr, Scan(appl, records, 1, NoBest))

\* the four keys _calculate_field_scores reads
FieldKeys == {"name", "dob", "state", "address"}

\* _calculate_field_scores raises AttributeError: a side is None and has no
\* get, or a field holds None and has no strip
_calculate_field_scores_raises(appl, record) ==
    \/ appl = NoneDict
    \/ record = NoneDict
    \/ \E k \in FieldKeys :
         \/ k \in DOMAIN appl /\ appl[k] = None
         \/ k \in DOMAIN record /\ record[k] = None

\* an exception is raised inside the try block of link: the empty list
\* returns before anything is read, otherwise the loop scores every record
link_raises(appl, records) ==
    /\ records # <<>>
    /\ \E i \in 1..Len(records) :
         _calculate_field_scores_raises(appl, records[i])

\* link without the empty-list check
link_ScanAlways(appl, records, thr) == LinkScan(appl, records, thr)

\* ProbabilisticLinkageEngine.link
link(appl, records, thr) ==
    IF records = <<>> THEN EmptyPoolResult
    ELSE LinkScan(appl, records, thr)

----------------------------------------------------------------------------
(* Inputs *)

\* the longest risk_factors list drawn
MaxFactors == 2

\* strftime("%Y-%m-%d"): how the perception adapter writes the DOB it read
IsoText(y, m, d) ==
    << Digits[((y \div 1000) % 10) + 1], Digits[((y \div 100) % 10) + 1],
       Digits[((y \div 10) % 10) + 1], Digits[(y % 10) + 1], "-",
       Digits[((m \div 10) % 10) + 1], Digits[(m % 10) + 1], "-",
       Digits[((d \div 10) % 10) + 1], Digits[(d % 10) + 1] >>

\* the evaluation date of the decision runs
Today == [y |-> 2026, m |-> 11, d |-> 5]

\* DOB texts: blank, in another layout, not a calendar date, and dates that
\* make the applicant 19, 30, a week short of 21, a day short of 21, and 21
\* on the evaluation date
DobTexts ==
    { <<>>,
      <<"0", "3", "/", "1", "5", "/", "1", "9", "8", "5">>,
      IsoText(2001, 2, 30),
      IsoText(2007, 6, 1),
      IsoText(1996, 1, 15),
      IsoText(2005, 11, 12),
      IsoText(2005, 11, 6),
      IsoText(2005, 11, 5) }

\* OCRResult.text_fields: the dict without a dob key, or with one
TextFields == { <<>> } \cup { [dob |-> t] : t \in DobTexts }

OcrConfidences == {30, 49, 50, 90}

\* every OCRResult the dataclass accepts, over the sampled values
OCRResults ==
    [text_fields : TextFields, confidence : OcrConfidences,
     quality_score : {90}, tamper_detected : BOOLEAN]

FactorTexts == {"Prior denial on record", "Address mismatch"}

RECURSIVE SeqsUpTo(_, _)
SeqsUpTo(S, n) ==
    IF n = 0 THEN { <<>> }
    ELSE SeqsUpTo(S, n - 1)
           \cup { Append(q, x) : q \in { r \in SeqsUpTo(S, n - 1) : Len(r) = n - 1 },
                                 x \in S }

RiskScores == {10, 70, 71}

RiskConfidences == {40, 100}

\* every RiskAssessment the dataclass accepts, over the sampled values
RiskAssessments ==
    [risk_score : RiskScores, risk_factors : SeqsUpTo(FactorTexts, MaxFactors),
     confidence : RiskConfidences, requires_manual_review : BOOLEAN]

\* outcome values of a candidate record
OutcomeTexts ==
    { denied,
      <<"D", "E", "N", "I", "E", "D">>,
      approved,
      <<"A", "p", "p", "r", "o", "v", "e", "d">>,
      <<"p", "e", "n", "d", "i", "n", "g">>,
      <<>> }

\* candidate records: with an outcome, and without the key
Records ==
    { [check_id |-> "FL_202401_000001", outcome |-> o] : o \in OutcomeTexts }
      \cup { [check_id |-> "FL_202401_000001"] }

LinkConfidences == {0, 85}

\* every LinkageResult the dataclass accepts, over the sampled values; an
\* unmatched result carries no record or one record
LinkageResults ==
    { l \in [matched : BOOLEAN, confidence : LinkConfidences,
             requires_review : BOOLEAN, best_match : Records \cup {NoneDict}] :
        l.matched \/ l.best_match \in {NoneDict, [check_id |-> "FL_202401_000001",
                                                  outcome |-> denied]} }

\* the longest list of NICS records drawn
MaxPool == 2

\* settings.linkage_confidence_threshold, in hundredths
linkage_confidence_threshold == 70

\* names and addresses of the linkage runs
JohnDoe == <<"J", "o", "h", "n", " ", "D", "o", "e">>

JohnDoeUpper == <<"J", "O", "H", "N", " ", "D", "O", "E">>

JonDoe == <<"J", "o", "n", " ", "D", "o", "e">>

JaneSmith == <<"J", "a", "n", "e", " ", "S", "m", "i", "t", "h">>

MainSt == <<"1", "2", "3", " ", "M", "a", "i", "n", " ", "S", "t">>

MainStreet ==
    <<"1", "2", "3", " ", "M", "a", "i", "n", " ", "S", "t", "r", "e", "e", "t">>

OakAve == <<"4", "5", "6", " ", "O", "a", "k", " ", "A", "v", "e">>

Florida == <<"F", "L">>

California == <<"C", "A">>

\* a text with a blank on either side
Padded(s) == <<" ">> \o s \o <<" ">>

\* an applicant in the shape the linkage tests use
JohnApplicant ==
    [name |-> JohnDoe, dob |-> IsoText(1985, 3, 15), state |-> Florida,
     address |-> MainSt]

\* applicants: that applicant; the same without an address; with no field at all;
\* with every field blank; another person; the first one in another
\* spelling; a near namesake; a name alone
Applicants ==
    { JohnApplicant,
      [name |-> JohnDoe, dob |-> IsoText(1985, 3, 15), state |-> Florida],
      EmptyDict,
      [name |-> <<" ", " ">>, dob |-> <<>>, state |-> <<>>, address |-> <<>>],
      [name |-> JaneSmith, dob |-> IsoText(1990, 7, 22), state |-> California,
       address |-> OakAve],
      [name |-> Padded(JohnDoeUpper), dob |-> IsoText(1985, 3, 15),
       state |-> <<"f", "l">>, address |-> MainSt],
      [name |-> JonDoe, dob |-> IsoText(1985, 3, 15), state |-> Florida,
       address |-> MainStreet],
      [name |-> JohnDoe] }

\* a NICS record as generate_synthetic_nics.py writes it
NicsRecord(check_id, name, dob, state, address, outcome) ==
    [check_id |-> check_id, name |-> name, dob |-> dob, state |-> state,
     address |-> address, outcome |-> outcome]

\* NICS records: that applicant's record; the same person under another
\* check; with another DOB; another person; a near namesake; another
\* spelling; a record without the four fields; a record with blank fields;
\* the same person in another state; another person born the same day;
\* the same person in another state, without an address
NicsRecords ==
    { NicsRecord("FL_202401_000001", JohnDoe, IsoText(1985, 3, 15), Florida,
                 MainSt, approved),
      NicsRecord("FL_202402_000002", JohnDoe, IsoText(1985, 3, 15), Florida,
                 MainSt, denied),
      NicsRecord("FL_202403_000003", JohnDoe, IsoText(1985, 3, 16), Florida,
                 MainSt, approved),
      NicsRecord("CA_202404_000004", JaneSmith, IsoText(1990, 7, 22),
                 California, OakAve, approved),
      NicsRecord("FL_202405_000005", JonDoe, IsoText(1985, 3, 15), Florida,
                 MainStreet, approved),
      NicsRecord("FL_202406_000006", JohnDoeUpper, Padded(IsoText(1985, 3, 15)),
                 Padded(<<"f", "l">>), Padded(MainSt), approved),
      [check_id |-> "FL_202407_000007", outcome |-> approved],
      NicsRecord("FL_202408_000008", <<" ", " ">>, <<>>, Florida, <<>>,
                 approved),
      NicsRecord("CA_202409_000009", JohnDoe, IsoText(1985, 3, 15), California,
                 OakAve, denied),
      [check_id |-> "FL_202410_000010", name |-> JaneSmith,
       dob |-> IsoText(1985, 3, 15), state |-> Florida, outcome |-> approved],
      [check_id |-> "CA_202411_000011", name |-> JohnDoe,
       dob |-> IsoText(1985, 3, 15), state |-> California,
       outcome |-> approved] }

\* an applicant whose state is None instead of a string
MalformedApplicants ==
    { [name |-> JohnDoe, dob |-> IsoText(1985, 3, 15), state |-> None,
       address |-> MainSt] }

\* malformed entries of the list: a record whose address is None instead of
\* a string, and None instead of a record
MalformedRecords ==
    { NicsRecord("FL_202412_000012", JohnDoe, IsoText(1985, 3, 15), Florida,
                 None, approved),
      NoneDict }

\* match thresholds: none, the default, and a stricter one
Thresholds == {0, linkage_confidence_threshold, 80}

----------------------------------------------------------------------------
(* The decision run *)

\* no LinkageResult yet
NoLinkResult == LinkageResult(FALSE, 0, EmptyDict, <<>>, FALSE, NoneDict)

\* link_call with a handler that returns an unmatched result
link_call_FalseNegative(appl, records, thr) ==
    IF link_raises(appl, records)
    THEN [pc |-> "linked", raised |-> "none",
          link_result |-> LinkageResult(FALSE, 0, EmptyDict, <<>>, FALSE,
                                        NoneDict)]
    ELSE [pc |-> "linked", raised |-> "none",
          link_result |-> link(appl, records, thr)]

\* how a call of link ends: the exception handler raises LinkageError and
\* no LinkageResult is returned
link_call(appl, records, thr) ==
    IF link_raises(appl, records)
    THEN [pc |-> "raised", raised |-> "LinkageError",
          link_result |-> NoLinkResult]
    ELSE [pc |-> "linked", raised |-> "none",
          link_result |-> link(appl, records, thr)]

\* the linkage run has not been started
LinkIdle ==
    /\ nics_records = <<>>
    /\ threshold = linkage_confidence_threshold
    /\ link_result = NoLinkResult

\* the fuzzy matching run has not been started
FuzzyIdle ==
    /\ query = <<>>
    /\ candidates = <<>>
    /\ fuzzy_threshold = 70
    /\ ambiguity_threshold = DefaultAmbiguityThreshold
    /\ matches = <<>>

\* the scoring run has not been started
ScoreIdle ==
    /\ nics_record = EmptyDict
    /\ scores = EmptyDict

\* no request has been received
NoResponse == [status_code |-> 0, error |-> "none"]

ApiIdle ==
    /\ request = [applicant_id |-> <<>>, id_image_base64 |-> None,
                  id_image_url |-> None]
    /\ response = NoResponse
    /\ engine_invoked = FALSE

\* settings.image_quality_threshold and settings.model_a_confidence_threshold,
\* in hundredths
image_quality_threshold == 50

model_a_confidence_threshold == 80

\* no assessment has been started
AssessIdle ==
    /\ image = [quality |-> 90, tampered |-> FALSE, ocr |-> "lines",
                avg_confidence |-> 90, text_fields |-> EmptyDict]
    /\ settings = [image_quality_threshold |-> image_quality_threshold,
                   enable_tamper_detection |-> TRUE,
                   confidence_threshold |-> model_a_confidence_threshold]
    /\ calls = <<>>

\* no request is being served
ConcurrentIdle ==
    /\ engine = 0
    /\ engines = <<>>
    /\ runs = <<>>
    /\ frames = <<>>

\* the service around the core is not running
ServiceIdle == ApiIdle /\ AssessIdle /\ ConcurrentIdle

NoResult ==
    [decision |-> "NONE", confidence |-> 0, rationale |-> <<>>,
     requires_manual_review |-> FALSE]

Init ==
    /\ ServiceIdle
    /\ ocr_result \in OCRResults
    /\ risk_assessment \in RiskAssessments
    /\ linkage_result \in LinkageResults
    /\ now = Today
    /\ pc = "decide"
    /\ result = NoResult
    /\ applicant = EmptyDict
    /\ raised = "none"
    /\ LinkIdle
    /\ ScoreIdle
    /\ FuzzyIdle

\* assess_eligibility, step 4: the call of _make_decision
MakeDecision ==
    /\ pc = "decide"
    /\ result' = _make_decision(ocr_result, risk_assessment, linkage_result,
                                ocr_result.text_fields, now)
    /\ pc' = "done"
    /\ UNCHANGED <<serviceVars, ocr_result, risk_assessment, linkage_result, now,
                   applicant, raised, linkVars, scoreVars, fuzzyVars>>

Next == MakeDecision

Spec == Init /\ [][Next]_vars

----------------------------------------------------------------------------
(* The linkage run *)

\* the decision run has not been started
DecideIdle ==
    /\ ocr_result = [text_fields |-> EmptyDict, confidence |-> 90,
                     quality_score |-> 90, tamper_detected |-> FALSE]
    /\ risk_assessment = [risk_score |-> 10, risk_factors |-> <<>>,
                          confidence |-> 100,
                          requires_manual_review |-> FALSE]
    /\ linkage_result = [matched |-> FALSE, confidence |-> 0,
                         requires_review |-> FALSE, best_match |-> NoneDict]
    /\ now = Today
    /\ result = NoResult

InitLink ==
    /\ ServiceIdle
    /\ applicant \in Applicants \cup MalformedApplicants
    /\ nics_records \in SeqsUpTo(NicsRecords \cup MalformedRecords, MaxPool)
    /\ threshold \in Thresholds
    /\ link_result = NoLinkResult
    /\ pc = "link"
    /\ raised = "none"
    /\ DecideIdle
    /\ ScoreIdle
    /\ FuzzyIdle

\* assess_eligibility, step 2: the call of link
Link ==
    /\ pc = "link"
    /\ LET outcome == link_call(applicant, nics_records, threshold)
       IN  /\ link_result' = outcome.link_result
           /\ raised' = outcome.raised
           /\ pc' = outcome.pc
    /\ UNCHANGED <<serviceVars, decideVars, applicant, nics_records, threshold, scoreVars,
                   fuzzyVars>>

NextLink == Link

SpecLink == InitLink /\ [][NextLink]_vars

----------------------------------------------------------------------------
(* The decision run from signals as the adapters hand them to the          *)
(* dataclass constructors                                                  *)

\* OCRResult.__post_init__ checking the confidence alone
OCRResult_post_init_raises_ConfidenceOnly(ocr) ==
    ~(0 <= ocr.confidence /\ ocr.confidence <= 100)

\* OCRResult.__post_init__ raises ValueError
OCRResult_post_init_raises(ocr) ==
    \/ ~(0 <= ocr.confidence /\ ocr.confidence <= 100)
    \/ ~(0 <= ocr.quality_score /\ ocr.quality_score <= 100)

\* RiskAssessment.__post_init__ raises ValueError
RiskAssessment_post_init_raises(risk) ==
    \/ ~(0 <= risk.risk_score /\ risk.risk_score <= 100)
    \/ ~(0 <= risk.confidence /\ risk.confidence <= 100)

\* values handed to a constructor as a confidence or a score, in hundredths:
\* below the range, its ends, inside it, and above it
SignalValues == {0 - 10, 0, 30, 71, 100, 110}

\* the arguments of OCRResult(...), range unchecked
OCRSignals ==
    [text_fields : {EmptyDict, [dob |-> IsoText(1996, 1, 15)]},
     confidence : SignalValues, quality_score : {0 - 10, 90, 110},
     tamper_detected : BOOLEAN]

\* the arguments of RiskAssessment(...), range unchecked
RiskSignals ==
    [risk_score : SignalValues, risk_factors : {<<>>},
     confidence : {0 - 10, 100, 110}, requires_manual_review : {FALSE}]

InitSignals ==
    /\ ServiceIdle
    /\ ocr_result \in OCRSignals
    /\ risk_assessment \in RiskSignals
    /\ linkage_result = [matched |-> FALSE, confidence |-> 0,
                         requires_review |-> FALSE, best_match |-> NoneDict]
    /\ now = Today
    /\ pc = "extract"
    /\ result = NoResult
    /\ applicant = EmptyDict
    /\ raised = "none"
    /\ LinkIdle
    /\ ScoreIdle
    /\ FuzzyIdle

\* assess_eligibility, step 1: the adapter constructs the OCRResult
ConstructOCRResult ==
    /\ pc = "extract"
    /\ IF OCRResult_post_init_raises(ocr_result)
       THEN pc' = "raised" /\ raised' = "ValueError"
       ELSE pc' = "assess_risk" /\ UNCHANGED raised
    /\ UNCHANGED <<serviceVars, decideVars, applicant, linkVars, scoreVars, fuzzyVars>>

\* assess_eligibility, step 3: the adapter constructs the RiskAssessment
ConstructRiskAssessment ==
    /\ pc = "assess_risk"
    /\ IF RiskAssessment_post_init_raises(risk_assessment)
       THEN pc' = "raised" /\ raised' = "ValueError"
       ELSE pc' = "decide" /\ UNCHANGED raised
    /\ UNCHANGED <<serviceVars, decideVars, applicant, linkVars, scoreVars, fuzzyVars>>

NextSignals == ConstructOCRResult \/ ConstructRiskAssessment \/ MakeDecision

SpecSignals == InitSignals /\ [][NextSignals]_vars

----------------------------------------------------------------------------
(* The fuzzy matching run *)

\* the longest list of candidates drawn
MaxCandidates == 3

Queries == { <<>>, JohnDoe, JonDoe }

CandidateNames == { JohnDoe, JohnDoeUpper, JonDoe, JaneSmith }

\* thresholds given to fuzzy_match: none, the default, and a perfect score
FuzzyThresholds == {0, 70, 100}

AmbiguityThresholds == {1, 2, DefaultAmbiguityThreshold}

InitFuzzy ==
    /\ ServiceIdle
    /\ query \in Queries
    /\ candidates \in SeqsUpTo(CandidateNames, MaxCandidates)
    /\ fuzzy_threshold \in FuzzyThresholds
    /\ ambiguity_threshold \in AmbiguityThresholds
    /\ matches = <<>>
    /\ pc = "fuzzy_match"
    /\ raised = "none"
    /\ applicant = EmptyDict
    /\ DecideIdle
    /\ LinkIdle
    /\ ScoreIdle

\* a call of RapidFuzzMatcher.fuzzy_match
FuzzyMatch ==
    /\ pc = "fuzzy_match"
    /\ LET outcome == fuzzy_match(query, candidates, fuzzy_threshold,
                                  ambiguity_threshold)
       IN  /\ matches' = outcome.matches
           /\ raised' = outcome.raised
    /\ pc' = "fuzzy_matched"
    /\ UNCHANGED <<serviceVars, decideVars, applicant, linkVars, scoreVars, query,
                   candidates, fuzzy_threshold, ambiguity_threshold>>

NextFuzzy == FuzzyMatch

SpecFuzzy == InitFuzzy /\ [][NextFuzzy]_vars

----------------------------------------------------------------------------
(* The scoring run *)

InitScores ==
    /\ ServiceIdle
    /\ applicant \in Applicants
    /\ nics_record \in NicsRecords
    /\ scores = EmptyDict
    /\ pc = "score"
    /\ raised = "none"
    /\ DecideIdle
    /\ LinkIdle
    /\ FuzzyIdle

\* link, the loop body: the call of _calculate_field_scores
CalculateFieldScores ==
    /\ pc = "score"
    /\ scores' = _calculate_field_scores(applicant, nics_record)
    /\ pc' = "scored"
    /\ UNCHANGED <<serviceVars, decideVars, applicant, raised, linkVars, nics_record,
                   fuzzyVars>>

NextScores == CalculateFieldScores

SpecScores == InitScores /\ [][NextScores]_vars

----------------------------------------------------------------------------
(* The POST /eligibility handler *)

\* the text sub occurs in the text at position i
OccursAt(sub, text, i) ==
    /\ i + Len(sub) - 1 <= Len(text)
    /\ \A k \in 1..Len(sub) : text[i + k - 1] = sub[k]

\* Python's "sub in text" on strings
Contains(sub, text) == \E i \in 1..(Len(text) + 1) : OccursAt(sub, text, i)

\* Python's truth value of an Optional[str]: None and "" are false
Given(field) == field # None /\ field # <<>>

\* type(e).__name__ of the exceptions that reach the handler's except clause
HTTPExceptionName ==
    <<"H", "T", "T", "P", "E", "x", "c", "e", "p", "t", "i", "o", "n">>

ValueErrorName == <<"V", "a", "l", "u", "e", "E", "r", "r", "o", "r">>

OCRFailedErrorName ==
    <<"O", "C", "R", "F", "a", "i", "l", "e", "d", "E", "r", "r", "o", "r">>

ImageQualityErrorName ==
    <<"I", "m", "a", "g", "e", "Q", "u", "a", "l", "i", "t", "y",
      "E", "r", "r", "o", "r">>

LinkageErrorName ==
    <<"L", "i", "n", "k", "a", "g", "e", "E", "r", "r", "o", "r">>

RiskAssessmentErrorName ==
    <<"R", "i", "s", "k", "A", "s", "s", "e", "s", "s", "m", "e", "n", "t",
      "E", "r", "r", "o", "r">>

APITimeoutErrorName ==
    <<"A", "P", "I", "T", "i", "m", "e", "o", "u", "t",
      "E", "r", "r", "o", "r">>

\* what the call of a function did: returned, or raised an exception of the
\* named type carrying a status code (0 when the exception has none)
Returned == [raised |-> <<>>, status_code |-> 0]

Raised(name, status) == [raised |-> name, status_code |-> status]

\* base64 texts: one that decodes and one that b64decode rejects
GoodImage == <<"i", "V", "B", "O">>

OtherImage == <<"R", "0", "l", "G">>

BadImage == <<"i", "V", "B", "O", "R">>

\* _save_base64_image: a text that does not decode raises ValueError
_save_base64_image(base64_data) ==
    IF base64_data = BadImage THEN Raised(ValueErrorName, 0) ELSE Returned

\* the except clause of check_eligibility: the error code taken from the
\* exception's type name
error_code(error_type) ==
    IF Contains(<<"O", "C", "R">>, error_type) THEN "OCR_FAILED"
    ELSE IF Contains(<<"A", "P", "I">>, error_type) THEN "API_ERROR"
    ELSE "INTERNAL_ERROR"

\* the try block of check_eligibility: what it raised, if anything, and
\* whether it reached the call of assess_eligibility; assess is what that
\* call does when it is made
try_block(req, assess) ==
    IF ~Given(req.id_image_base64) /\ ~Given(req.id_image_url)
    THEN [outcome |-> Raised(HTTPExceptionName, 400), invoked |-> FALSE]
    ELSE IF ~Given(req.id_image_base64)
    THEN [outcome |-> Raised(HTTPExceptionName, 501), invoked |-> FALSE]
    ELSE IF _save_base64_image(req.id_image_base64) # Returned
    THEN [outcome |-> _save_base64_image(req.id_image_base64),
          invoked |-> FALSE]
    ELSE [outcome |-> assess, invoked |-> TRUE]

\* the except clause of check_eligibility: every exception of the try block,
\* whatever its type, is answered with status 500
except_clause(outcome) ==
    [status_code |-> 500, error |-> error_code(outcome.raised)]

\* check_eligibility: the response and whether the engine was invoked
check_eligibility(req, assess) ==
    LET body == try_block(req, assess)
    IN  [response |-> IF body.outcome = Returned
                      THEN [status_code |-> 200, error |-> "none"]
                      ELSE except_clause(body.outcome),
         engine_invoked |-> body.invoked]

ApplicantIds == {<<"A", "1">>, <<"A", "2">>, <<"A", "3">>}

Requests ==
    [applicant_id : ApplicantIds,
     id_image_base64 : {None, <<>>, GoodImage, OtherImage, BadImage},
     id_image_url : {None, <<>>, <<"h", "t", "t", "p">>}]

\* what assess_eligibility can do when the handler calls it
EngineOutcomes ==
    {Returned} \cup
    {Raised(name, 0) : name \in {OCRFailedErrorName, ImageQualityErrorName,
                                 LinkageErrorName, RiskAssessmentErrorName,
                                 APITimeoutErrorName}}

InitApi ==
    /\ request \in Requests
    /\ response = NoResponse
    /\ engine_invoked = FALSE
    /\ pc = "request"
    /\ raised = "none"
    /\ applicant = EmptyDict
    /\ DecideIdle
    /\ LinkIdle
    /\ ScoreIdle
    /\ FuzzyIdle
    /\ AssessIdle
    /\ ConcurrentIdle

\* one request to POST /eligibility, answered
CheckEligibility ==
    /\ pc = "request"
    /\ \E assess \in EngineOutcomes :
          LET answer == check_eligibility(request, assess)
          IN  /\ response' = answer.response
              /\ engine_invoked' = answer.engine_invoked
    /\ pc' = "responded"
    /\ UNCHANGED <<request, decideVars, applicant, raised, linkVars,
                   scoreVars, fuzzyVars, assessVars, concurrentVars>>

NextApi == CheckEligibility

SpecApi == InitApi /\ [][NextApi]_vars

----------------------------------------------------------------------------
(* One assessment: EligibilityEngine.__init__ and assess_eligibility *)

\* no confidence_threshold argument given to PaddleOCRAdapter
NoArg == 0 - 1

\* PaddleOCRAdapter.__init__: confidence_threshold or the setting; an
\* argument of 0.0 is false and reads as the setting too
adapter_confidence_threshold(arg) ==
    IF arg = NoArg \/ arg = 0 THEN model_a_confidence_threshold ELSE arg

\* the names of the steps, as the log of calls records them
LoadCall == "_load_nics_records"

ExtractCall == "perception.extract"

LinkCall == "linkage.link"

RiskCall == "reasoning.assess_risk"

DecideCall == "_make_decision"

\* the calls that leave the process: a file read, the OCR model, the LLM
ExternalCalls == {LoadCall, ExtractCall, RiskCall}

\* the errors extract raises
ExtractErrors ==
    {"ImageQualityError", "TamperDetectedError", "LowConfidenceError",
     "OCRFailedError"}

\* extract, step 1: quality < settings.image_quality_threshold
QualityTooLow(img, cfg) == img.quality < cfg.image_quality_threshold

\* extract without the tamper check
Tampered_NeverChecked(img, cfg) == FALSE

\* extract, step 2: tampering is looked for only when the setting enables it
Tampered(img, cfg) == cfg.enable_tamper_detection /\ img.tampered

\* the tamper_detected local of extract
tamper_detected(img, cfg) ==
    IF cfg.enable_tamper_detection THEN img.tampered ELSE FALSE

\* extract, step 6: avg_confidence < self.confidence_threshold
ConfidenceTooLow(img, cfg) == img.avg_confidence < cfg.confidence_threshold

\* the OCRResult extract constructs
ExtractedResult(img, cfg) ==
    [text_fields |-> img.text_fields, confidence |-> img.avg_confidence,
     quality_score |-> img.quality,
     tamper_detected |-> tamper_detected(img, cfg)]

\* the try block of extract: the exception it raises, "none" if it returns
extract_try(img, cfg) ==
    IF QualityTooLow(img, cfg) THEN "ImageQualityError"
    ELSE IF Tampered(img, cfg) THEN "TamperDetectedError"
    ELSE IF img.ocr = "error" THEN "Exception"
    ELSE IF img.ocr = "empty" THEN "OCRFailedError"
    ELSE IF ConfidenceTooLow(img, cfg) THEN "LowConfidenceError"
    ELSE IF OCRResult_post_init_raises(ExtractedResult(img, cfg))
    THEN "ValueError"
    ELSE "none"

\* PaddleOCRAdapter.extract: the three known errors are re-raised, every
\* other exception becomes OCRFailedError
extract(img, cfg) ==
    LET e == extract_try(img, cfg)
    IN  IF e = "none"
        THEN [raised |-> "none", ocr_result |-> ExtractedResult(img, cfg)]
        ELSE [raised |-> IF e \in {"ImageQualityError", "TamperDetectedError",
                                   "LowConfidenceError"}
                         THEN e ELSE "OCRFailedError",
              ocr_result |-> NoneDict]

\* assess_eligibility with the risk assessment made before the linkage
After_RiskBeforeLink(step) ==
    CASE step = ExtractCall -> RiskCall
      [] step = RiskCall -> LinkCall
      [] step = LinkCall -> DecideCall
      [] step = DecideCall -> "done"

\* the order of the statements of assess_eligibility: the step that follows
\* a step that returned
After(step) ==
    CASE step = ExtractCall -> LinkCall
      [] step = LinkCall -> RiskCall
      [] step = RiskCall -> DecideCall
      [] step = DecideCall -> "done"

\* a confidence of the linkage model, in ten-thousandths, as the decision
\* model reads it, in hundredths
Hundredths(x) == (x + 50) \div 100

\* the LinkageResult as _make_decision reads it
AsLinkageResult(l) ==
    [matched |-> l.matched, confidence |-> Hundredths(l.confidence),
     requires_review |-> l.requires_review, best_match |-> l.best_match]

\* what the image functions find in an image: validate_quality,
\* detect_tampering, the OCR run (no text, a failure, or text lines), the
\* mean confidence of the lines and the parsed fields
Images ==
    [quality : {30, image_quality_threshold, 90},
     tampered : BOOLEAN,
     ocr : {"empty", "error", "lines"},
     avg_confidence : {40, 60, model_a_confidence_threshold, 110},
     text_fields : {JohnApplicant} \cup MalformedApplicants]

\* the settings and the adapter's threshold
Configurations ==
    { [image_quality_threshold |-> q, enable_tamper_detection |-> t,
       confidence_threshold |-> adapter_confidence_threshold(arg)] :
        q \in {image_quality_threshold}, t \in BOOLEAN,
        arg \in {NoArg, 0, 60} }

\* candidate pools of the assessments
Pools ==
    { <<>>,
      << NicsRecord("FL_202402_000002", JohnDoe, IsoText(1985, 3, 15),
                    Florida, MainSt, denied),
         NicsRecord("CA_202404_000004", JaneSmith, IsoText(1990, 7, 22),
                    California, OakAve, approved) >> }

\* what assess_risk answers: a RiskAssessment
RiskAnswers ==
    { [risk_score |-> s, risk_factors |-> <<>>, confidence |-> 100,
       requires_manual_review |-> FALSE] : s \in {10, 71} }

InitAssess ==
    /\ image \in Images
    /\ settings \in Configurations
    /\ calls = <<>>
    /\ pc = "__init__"
    /\ raised = "none"
    /\ applicant = EmptyDict
    /\ DecideIdle
    /\ LinkIdle
    /\ ScoreIdle
    /\ FuzzyIdle
    /\ ApiIdle
    /\ ConcurrentIdle

\* EligibilityEngine.__init__: the pool is the one given, or is loaded
EngineInit ==
    /\ pc = "__init__"
    /\ nics_records' \in Pools
    /\ \E given \in BOOLEAN :
          calls' = IF given THEN calls ELSE Append(calls, LoadCall)
    /\ pc' = ExtractCall
    /\ UNCHANGED <<decideVars, applicant, raised, threshold, link_result,
                   scoreVars, fuzzyVars, apiVars, image, settings, concurrentVars>>

\* assess_eligibility, step 1: self.perception.extract
ExtractStep ==
    /\ pc = ExtractCall
    /\ calls' = Append(calls, ExtractCall)
    /\ LET outcome == extract(image, settings)
       IN  IF outcome.raised = "none"
           THEN /\ ocr_result' = outcome.ocr_result
                /\ applicant' = outcome.ocr_result.text_fields
                /\ pc' = After(ExtractCall)
                /\ UNCHANGED raised
           ELSE /\ raised' = outcome.raised
                /\ pc' = "raised"
                /\ UNCHANGED <<ocr_result, applicant>>
    /\ UNCHANGED <<risk_assessment, linkage_result, now, result, linkVars,
                   scoreVars, fuzzyVars, apiVars, image, settings, concurrentVars>>

\* assess_eligibility, step 2: self.linkage.link
LinkStep ==
    /\ pc = LinkCall
    /\ calls' = Append(calls, LinkCall)
    /\ LET outcome == link_call(applicant, nics_records, threshold)
       IN  /\ link_result' = outcome.link_result
           /\ raised' = outcome.raised
           /\ IF outcome.raised = "none"
              THEN /\ linkage_result' = AsLinkageResult(outcome.link_result)
                   /\ pc' = After(LinkCall)
              ELSE /\ pc' = "raised"
                   /\ UNCHANGED linkage_result
    /\ UNCHANGED <<ocr_result, risk_assessment, now, result, applicant,
                   nics_records, threshold, scoreVars, fuzzyVars, apiVars,
                   image, settings, concurrentVars>>

\* assess_eligibility, step 3: self.reasoning.assess_risk, which answers or
\* raises RiskAssessmentError
RiskStep ==
    /\ pc = RiskCall
    /\ calls' = Append(calls, RiskCall)
    /\ \/ /\ risk_assessment' \in RiskAnswers
          /\ pc' = After(RiskCall)
          /\ UNCHANGED raised
       \/ /\ raised' = "RiskAssessmentError"
          /\ pc' = "raised"
          /\ UNCHANGED risk_assessment
    /\ UNCHANGED <<ocr_result, linkage_result, now, result, applicant,
                   linkVars, scoreVars, fuzzyVars, apiVars, image, settings, concurrentVars>>

\* assess_eligibility, step 4: self._make_decision and the return
DecideStep ==
    /\ pc = DecideCall
    /\ calls' = Append(calls, DecideCall)
    /\ result' = _make_decision(ocr_result, risk_assessment, linkage_result,
                                ocr_result.text_fields, now)
    /\ pc' = After(DecideCall)
    /\ UNCHANGED <<ocr_result, risk_assessment, linkage_result, now,
                   applicant, raised, linkVars, scoreVars, fuzzyVars,
                   apiVars, image, settings, concurrentVars>>

NextAssess == EngineInit \/ ExtractStep \/ LinkStep \/ RiskStep \/ DecideStep

SpecAssess == InitAssess /\ [][NextAssess]_vars

----------------------------------------------------------------------------
(* Concurrent assessments on the engine get_engine hands out *)

\* the requests served at the same time
Runs == {1, 2}

\* all calls keep their locals in one place, as attributes of the shared
\* engine would be
Frame_Shared(p) == 1

\* the locals of a call of link (best_match, best_score, best_field_scores
\* and the loop position) belong to that call alone
Frame(p) == p

\* the pools the NICS file can hold: those of the single assessments, and
\* one with a record whose address is None
SharedPools ==
    Pools \cup
    { << NicsRecord("FL_202401_000001", JohnDoe, IsoText(1985, 3, 15),
                    Florida, MainSt, approved),
         NicsRecord("FL_202412_000012", JohnDoe, IsoText(1985, 3, 15),
                    Florida, None, approved) >> }

\* the OCR results of the concurrent assessments
SharedOCRResults ==
    { [text_fields |-> t, confidence |-> 90, quality_score |-> 90,
       tamper_detected |-> FALSE] :
        t \in { JohnApplicant,
                [name |-> JaneSmith, dob |-> IsoText(1990, 7, 22),
                 state |-> California, address |-> OakAve] } }

\* a request that has not called get_engine yet
NewRun(ocr, risk) ==
    [pc |-> "get_engine", ocr_result |-> ocr, risk_assessment |-> risk,
     engine |-> 0, link_result |-> NoLinkResult, result |-> NoResult,
     overlapped |-> FALSE]

\* the locals of a call of link before the loop
NewFrame == [i |-> 1, best |-> NoBest]

\* the pool of the engine a request works on
PoolOf(p) == engines[runs[p].engine].nics_records

InitConcurrent ==
    /\ nics_records \in SharedPools
    /\ engine = 0
    /\ engines = <<>>
    /\ \E risk \in RiskAnswers :
          runs \in [Runs -> { NewRun(o, risk) : o \in SharedOCRResults }]
    /\ frames = [f \in Runs |-> NewFrame]
    /\ pc = "serving"
    /\ raised = "none"
    /\ applicant = EmptyDict
    /\ threshold = linkage_confidence_threshold
    /\ link_result = NoLinkResult
    /\ DecideIdle
    /\ ScoreIdle
    /\ FuzzyIdle
    /\ ApiIdle
    /\ AssessIdle

\* get_engine: "if engine is None", and the return of the engine found
GetEngine(p) ==
    /\ runs[p].pc = "get_engine"
    /\ runs' = IF engine = 0
               THEN [runs EXCEPT ![p].pc = "construct"]
               ELSE [runs EXCEPT ![p].pc = "link", ![p].engine = engine]
    /\ UNCHANGED <<engine, engines, frames, coreVars>>

\* get_engine: "engine = EligibilityEngine()", which loads the pool, and the
\* return
ConstructEngine(p) ==
    /\ runs[p].pc = "construct"
    /\ engines' = Append(engines, [nics_records |-> nics_records])
    /\ engine' = Len(engines) + 1
    /\ runs' = [runs EXCEPT ![p].pc = "link", ![p].engine = Len(engines) + 1]
    /\ UNCHANGED <<frames, coreVars>>

\* link, up to the loop: the empty list returns at once
LinkStart(p) ==
    /\ runs[p].pc = "link"
    /\ IF PoolOf(p) = <<>>
       THEN /\ runs' = [runs EXCEPT ![p].pc = "assess_risk",
                                    ![p].link_result = EmptyPoolResult]
            /\ UNCHANGED <<frames, coreVars>>
       ELSE /\ runs' = [runs EXCEPT ![p].pc = "scan"]
            /\ frames' = [frames EXCEPT ![Frame(p)] = NewFrame]
    /\ UNCHANGED <<engine, engines, coreVars>>

\* link, one pass of the loop: a record that cannot be scored ends the call
\* with LinkageError
ScanRecord(p) ==
    /\ runs[p].pc = "scan"
    /\ frames[Frame(p)].i <= Len(PoolOf(p))
    /\ LET frame == frames[Frame(p)]
           appl == runs[p].ocr_result.text_fields
           record == PoolOf(p)[frame.i]
           others == \E q \in Runs \ {p} : runs[q].pc = "scan"
       IN  IF _calculate_field_scores_raises(appl, record)
           THEN /\ runs' = [runs EXCEPT ![p].pc = "raised"]
                /\ UNCHANGED <<frames, coreVars>>
           ELSE /\ frames' = [frames EXCEPT ![Frame(p)] =
                                [i |-> frame.i + 1,
                                 best |-> ScanStep(appl, record, frame.best)]]
                /\ runs' = [runs EXCEPT ![p].overlapped = @ \/ others]
    /\ UNCHANGED <<engine, engines, coreVars>>

\* link, after the loop: the LinkageResult is built and returned
LinkReturn(p) ==
    /\ runs[p].pc = "scan"
    /\ frames[Frame(p)].i > Len(PoolOf(p))
    /\ runs' = [runs EXCEPT
                  ![p].pc = "assess_risk",
                  ![p].link_result =
                      LinkFinish(runs[p].ocr_result.text_fields, PoolOf(p),
                                 threshold, frames[Frame(p)].best)]
    /\ UNCHANGED <<engine, engines, frames, coreVars>>

\* assess_risk answers with the request's RiskAssessment
RiskAnswer(p) ==
    /\ runs[p].pc = "assess_risk"
    /\ runs' = [runs EXCEPT ![p].pc = "decide"]
    /\ UNCHANGED <<engine, engines, frames, coreVars>>

\* _make_decision and the return of assess_eligibility
DecideRun(p) ==
    /\ runs[p].pc = "decide"
    /\ runs' = [runs EXCEPT
                  ![p].pc = "done",
                  ![p].result =
                      _make_decision(runs[p].ocr_result,
                                     runs[p].risk_assessment,
                                     AsLinkageResult(runs[p].link_result),
                                     runs[p].ocr_result.text_fields, now)]
    /\ UNCHANGED <<engine, engines, frames, coreVars>>

\* a step of one of the requests
RunStep(p) ==
    \/ GetEngine(p)
    \/ ConstructEngine(p)
    \/ LinkStart(p)
    \/ ScanRecord(p)
    \/ LinkReturn(p)
    \/ RiskAnswer(p)
    \/ DecideRun(p)

NextConcurrent == \E p \in Runs : RunStep(p)

SpecConcurrent == InitConcurrent /\ [][NextConcurrent]_vars

----------------------------------------------------------------------------
(* What the properties below speak of *)

\* the DOB text the engine reads, and the age rule 2 compares with 21
InputDob == Get(ocr_result.text_fields, "dob")

InputAge == _calculate_age(InputDob, now)

NotUnderage == ~InputAge.known \/ InputAge.years >= 21

\* the linkage is matched to a record
MatchedToRecord == linkage_result.matched /\ linkage_result.best_match # NoneDict

\* the outcome of that record, case folded; blank when the record has none
NormalOutcome ==
    IF "outcome" \in DOMAIN linkage_result.best_match
    THEN Lower(linkage_result.best_match.outcome)
    ELSE <<>>

MatchedDenied == MatchedToRecord /\ NormalOutcome = denied

MatchedApproved == MatchedToRecord /\ NormalOutcome = approved

MatchedUnclear == MatchedToRecord /\ NormalOutcome \notin {denied, approved}

\* none of rule 1, the underage rule, rule 3 and the denied outcome fires
NoTerminatingRule ==
    /\ ocr_result.confidence >= 50
    /\ NotUnderage
    /\ risk_assessment.risk_score <= 70
    /\ ~MatchedDenied

\* s occurs in the sequence q
Occurs(s, q) == \E i \in 1..Len(q) : q[i] = s

\* C1: the decision is APPROVED exactly when the OCR confidence is at least
\* 0.5, the age is known and at least 21, the risk score is at most the
\* threshold, the linkage is not matched to a denied record, no review flag
\* is raised and no tampering is detected; an unmatched linkage with OCR
\* confidence 0.9, risk score 0.1 and age 30 and no flag is APPROVED.
C1_ApprovedExactly ==
    pc = "done" =>
      /\ result.decision = "APPROVED" <=>
           /\ ocr_result.confidence >= 50
           /\ InputAge.known /\ InputAge.years >= 21
           /\ risk_assessment.risk_score <= 70
           /\ ~MatchedDenied
           /\ ~MatchedUnclear
           /\ ~risk_assessment.requires_manual_review
           /\ ~linkage_result.requires_review
           /\ ~ocr_result.tamper_detected
      /\ ( /\ ~linkage_result.matched
           /\ ocr_result.confidence = 90
           /\ risk_assessment.risk_score = 10
           /\ InputAge = Age(30)
           /\ ~risk_assessment.requires_manual_review
           /\ ~linkage_result.requires_review
           /\ ~ocr_result.tamper_detected )
         => result.decision = "APPROVED"

C1_Witness ==
    /\ pc = "done"
    /\ result.decision = "APPROVED"
    /\ ~linkage_result.matched
    /\ linkage_result.best_match = NoneDict
    /\ ocr_result.confidence = 90
    /\ risk_assessment.risk_score = 10
    /\ InputAge = Age(30)

C3_LowConfidenceReview ==
    (pc = "done" /\ ocr_result.confidence < 50)
    => /\ result.decision = "MANUAL_REVIEW"
       /\ result.requires_manual_review
       /\ result.rationale = <<OcrLowText(ocr_result)>>

C3_Witness ==
    /\ pc = "done"
    /\ ocr_result.confidence = 30
    /\ InputAge = Age(19)
    /\ risk_assessment.risk_score = 71
    /\ MatchedDenied
    /\ result.decision = "MANUAL_REVIEW"

\* C4: when rules 1 and 2 do not stop and the risk score is above the
\* threshold the decision is DENIED and the rationale is the age entry
\* followed by the risk factors, each verbatim and in order; a risk score
\* equal to the threshold denies nothing by itself.
C4_HighRiskDenied ==
    (pc = "done" /\ ocr_result.confidence >= 50 /\ NotUnderage)
    => /\ risk_assessment.risk_score > 70 =>
            /\ result.decision = "DENIED"
            /\ Len(result.rationale) = 1 + Len(risk_assessment.risk_factors)
            /\ \A i \in 1..Len(risk_assessment.risk_factors) :
                   result.rationale[i + 1] = risk_assessment.risk_factors[i]
       /\ (risk_assessment.risk_score = 70 /\ result.decision = "DENIED")
            => MatchedDenied

C4_Witness ==
    /\ pc = "done"
    /\ ocr_result.confidence = 50
    /\ InputAge = NoAge
    /\ risk_assessment.risk_score = 71
    /\ risk_assessment.risk_factors = <<"Address mismatch", "Prior denial on record">>
    /\ result.decision = "DENIED"
    /\ Len(result.rationale) = 3

\* C5: when rules 1 to 3 do not stop, a matched record whose case-folded
\* outcome is "denied" gives DENIED with the failed-check entry last; one
\* whose outcome is "approved" adds the passed-check entry and raises no
\* flag; any other outcome, a missing one too, adds the unclear entry and
\* forces a review while the later rules still run; an unmatched linkage adds
\* no background-check entry and raises no flag.
C5_BackgroundCheck ==
    (pc = "done" /\ ocr_result.confidence >= 50 /\ NotUnderage
       /\ risk_assessment.risk_score <= 70)
    => /\ MatchedDenied =>
            /\ result.decision = "DENIED"
            /\ Len(result.rationale) = 2
            /\ result.rationale[2] = CheckFailedText(linkage_result)
       /\ MatchedApproved =>
            /\ result.rationale[2] = CheckPassedText(linkage_result)
            /\ result.decision = "APPROVED" <=>
                 /\ InputAge.known
                 /\ ~risk_assessment.requires_manual_review
                 /\ ~linkage_result.requires_review
                 /\ ~ocr_result.tamper_detected
       /\ MatchedUnclear =>
            /\ result.rationale[2] = CheckUnclearText(NormalOutcome)
            /\ result.decision = "MANUAL_REVIEW"
            /\ risk_assessment.requires_manual_review
                 => result.rationale[3] = RiskReviewText
       /\ ~linkage_result.matched =>
            /\ \A i \in 1..Len(result.rationale) :
                 result.rationale[i] \notin
                   { CheckFailedText(linkage_result),
                     CheckPassedText(linkage_result),
                     CheckUnclearText(NormalOutcome) }
            /\ result.decision = "APPROVED" <=>
                 /\ InputAge.known
                 /\ ~risk_assessment.requires_manual_review
                 /\ ~linkage_result.requires_review
                 /\ ~ocr_result.tamper_detected

C5_Witness ==
    /\ pc = "done"
    /\ ocr_result.confidence >= 50 /\ NotUnderage
    /\ risk_assessment.risk_score <= 70
    /\ linkage_result.matched
    /\ linkage_result.best_match # NoneDict
    /\ "outcome" \in DOMAIN linkage_result.best_match
    /\ linkage_result.best_match.outcome = <<"D", "E", "N", "I", "E", "D">>
    /\ result.decision = "DENIED"

\* C6: when no terminating rule fires and a review flag is raised (age
\* unknown, risk review, linkage review) the decision is MANUAL_REVIEW with
\* requires_manual_review set; with both the risk and the linkage flag both
\* entries are in the rationale, the risk entry first.
C6_ReviewFlagBinds ==
    (pc = "done" /\ NoTerminatingRule)
    => /\ ( \/ ~InputAge.known
            \/ risk_assessment.requires_manual_review
            \/ linkage_result.requires_review )
          => /\ result.decision = "MANUAL_REVIEW"
             /\ result.requires_manual_review
       /\ (risk_assessment.requires_manual_review /\ linkage_result.requires_review)
          => \E i, j \in 1..Len(result.rationale) :
                /\ i < j
                /\ result.rationale[i] = RiskReviewText
                /\ result.rationale[j] = LinkageReviewText

C6_Witness ==
    /\ pc = "done"
    /\ NoTerminatingRule
    /\ InputAge.known
    /\ ~MatchedToRecord
    /\ ~ocr_result.tamper_detected
    /\ ~risk_assessment.requires_manual_review
    /\ linkage_result.requires_review
    /\ result.decision = "MANUAL_REVIEW"

\* C7: when none of rules 1 to 4 stops and tampering is detected the decision
\* is MANUAL_REVIEW with requires_manual_review set, whatever the review
\* flags are; no input with tampering detected is APPROVED.
C7_TamperReview ==
    (pc = "done" /\ ocr_result.tamper_detected)
    => /\ NoTerminatingRule =>
            /\ result.decision = "MANUAL_REVIEW"
            /\ result.requires_manual_review
       /\ result.decision # "APPROVED"

C7_Witness ==
    /\ pc = "done"
    /\ ocr_result.tamper_detected
    /\ NoTerminatingRule
    /\ InputAge.known
    /\ ~MatchedUnclear
    /\ ~risk_assessment.requires_manual_review
    /\ ~linkage_result.requires_review
    /\ result.decision = "MANUAL_REVIEW"

\* the DOB inputs that are missing, blank, or no date in year-month-day form
UnparseableDobs ==
    { None, <<>>,
      <<"0", "3", "/", "1", "5", "/", "1", "9", "8", "5">>,
      IsoText(2001, 2, 30) }

\* C8: a missing or unparseable DOB gives an unknown age; with OCR confidence
\* at least 0.5 the rationale starts with the age-unknown entry, rule 3 still
\* runs, and the decision is DENIED or MANUAL_REVIEW, never APPROVED.
C8_UnknownAgeDegrades ==
    (pc = "done" /\ InputDob \in UnparseableDobs)
    => /\ InputAge = NoAge
       /\ ocr_result.confidence >= 50 =>
            /\ result.rationale[1] = AgeUnknownText
            /\ result.decision \in {"DENIED", "MANUAL_REVIEW"}
            /\ risk_assessment.risk_score > 70 =>
                 /\ result.decision = "DENIED"
                 /\ result.rationale = <<AgeUnknownText>> \o risk_assessment.risk_factors

C8_Witness ==
    /\ pc = "done"
    /\ InputDob = IsoText(2001, 2, 30)
    /\ ocr_result.confidence = 90
    /\ risk_assessment.risk_score = 10
    /\ ~linkage_result.matched
    /\ ~risk_assessment.requires_manual_review
    /\ ~linkage_result.requires_review
    /\ ~ocr_result.tamper_detected
    /\ result.decision = "MANUAL_REVIEW"

\* the applicant's 21st birthday falls after the evaluation date
BirthdayAfter(dob_date, today) ==
    \/ today.y - dob_date.y < 21
    \/ /\ today.y - dob_date.y = 21
       /\ \/ today.m < dob_date.m
          \/ today.m = dob_date.m /\ today.d < dob_date.d

\* C9: the age compared with 21 counts whole calendar years: an applicant
\* whose 21st birthday falls after the evaluation date has age at most 20 and
\* is DENIED, one whose 21st birthday is on or before it has age 21 or more.
C9_WholeCalendarYears ==
    (pc = "done" /\ ocr_result.confidence >= 50
       /\ InputDob # None /\ InputDob # <<>> /\ StrpTime(InputDob) # ValueError)
    => IF BirthdayAfter(StrpTime(InputDob), now)
       THEN InputAge.years <= 20 /\ result.decision = "DENIED"
       ELSE InputAge.years >= 21

\* C10: whichever rule ends the evaluation, the returned confidence is
\* 0.4 * OCR confidence + 0.4 * risk confidence + 0.2 * linkage confidence
\* (in thousandths), which lies in [0, 1].
C10_AggregateConfidence ==
    pc = "done" =>
      /\ result.confidence = 4 * ocr_result.confidence
                               + 4 * risk_assessment.confidence
                               + 2 * linkage_result.confidence
      /\ result.confidence \in 0..1000

C10_Witness ==
    /\ pc = "done"
    /\ result.decision = "DENIED"
    /\ MatchedDenied
    /\ ocr_result.confidence = 90
    /\ risk_assessment.confidence = 40
    /\ linkage_result.confidence = 85
    /\ result.confidence = 690

\* the rule an entry of the rationale comes from (8 is the final approval)
EntryRule(entry) ==
    IF entry = OcrLowText(ocr_result) THEN 1
    ELSE IF entry \in {AgeIneligibleText(InputAge), AgeEligibleText(InputAge),
                       AgeUnknownText} THEN 2
    ELSE IF entry \in FactorTexts THEN 3
    ELSE IF entry \in {CheckFailedText(linkage_result),
                       CheckPassedText(linkage_result),
                       CheckUnclearText(NormalOutcome)} THEN 4
    ELSE IF entry = RiskReviewText THEN 5
    ELSE IF entry = LinkageReviewText THEN 6
    ELSE IF entry = TamperText THEN 7
    ELSE IF entry = AllPassedText THEN 8
    ELSE 0

\* the rule that ends the evaluation (8: the review flags or the approval)
TerminatingRule ==
    IF ocr_result.confidence < 50 THEN 1
    ELSE IF InputAge.known /\ InputAge.years < 21 THEN 2
    ELSE IF risk_assessment.risk_score > 70 THEN 3
    ELSE IF MatchedDenied THEN 4
    ELSE IF ocr_result.tamper_detected THEN 7
    ELSE 8

C12_ReasonInRationale ==
    (pc = "done" /\ result.decision \in {"DENIED", "MANUAL_REVIEW"})
    => \E i \in 1..Len(result.rationale) :
          IF TerminatingRule = 8
          THEN \/ result.rationale[i] \in {AgeUnknownText,
                                           CheckUnclearText(NormalOutcome)}
               \/ EntryRule(result.rationale[i]) \in {5, 6}
          ELSE IF TerminatingRule = 2
          THEN result.rationale[i] = AgeIneligibleText(InputAge)
          ELSE EntryRule(result.rationale[i]) = TerminatingRule

----------------------------------------------------------------------------
(* Claims on ProbabilisticLinkageEngine.link *)

\* the composite score of the record at position i of the list, as the
\* float the code computes, in ten-thousandths
CandidateComposite(i) ==
    LET fs == _calculate_field_scores(applicant, nics_records[i])
    IN  10 * (4 * fs.name + 3 * fs.dob + 2 * fs.state + 1 * fs.address)
          + FloatError(fs)

\* C13: the returned confidence is the maximum composite score over the
\* whole list of records: no record scores above it, some record of a
\* non-empty list attains it, and it is 0.0 for an empty list.
C13_ConfidenceIsMaximum ==
    pc = "linked" =>
      /\ \A i \in 1..Len(nics_records) :
           CandidateComposite(i) <= link_result.confidence
      /\ nics_records # <<>> =>
           \E i \in 1..Len(nics_records) :
             CandidateComposite(i) = link_result.confidence
      /\ nics_records = <<>> => link_result.confidence = 0

\* the last record of the list scores above the first, which scores above 0
C13_Witness ==
    /\ pc = "linked"
    /\ Len(nics_records) = 2
    /\ 0 < CandidateComposite(1)
    /\ CandidateComposite(1) < CandidateComposite(2)
    /\ link_result.confidence = CandidateComposite(2)

\* C14: in every returned LinkageResult, for every list of records and
\* every configured threshold, best_match is non-null if and only if matched
\* is true.
C14_BestMatchIffMatched ==
    pc = "linked" => (link_result.best_match # NoneDict <=> link_result.matched)

\* the highest composite score among the records of a non-empty list
BestComposite ==
    CHOOSE c \in { CandidateComposite(i) : i \in 1..Len(nics_records) } :
      \A i \in 1..Len(nics_records) : CandidateComposite(i) <= c

HighNameScores ==
    { i \in 1..Len(nics_records) :
        _calculate_field_scores(applicant, nics_records[i]).name > 80 }

\* C16: requires_review is true exactly when the best composite lies in
\* [0.7, 0.9) or more than one record has a name score above 0.8; so a
\* confidence of at least 0.9 with at most one such record gives false, and
\* a confidence in [0.7, 0.9) gives true.
C16_RequiresReview ==
    pc = "linked" =>
      /\ nics_records # <<>> =>
           (link_result.requires_review
              <=> \/ (7000 <= BestComposite /\ BestComposite < 9000)
                  \/ Cardinality(HighNameScores) > 1)
      /\ nics_records = <<>> => ~link_result.requires_review
      /\ (link_result.confidence >= 9000 /\ Cardinality(HighNameScores) <= 1)
           => ~link_result.requires_review
      /\ (7000 <= link_result.confidence /\ link_result.confidence < 9000)
           => link_result.requires_review

\* the best record scores exactly 0.7 and no other record has a high name
\* score: the result is flagged for review
C16_Witness ==
    /\ pc = "linked"
    /\ Len(nics_records) = 2
    /\ BestComposite = 7000
    /\ Cardinality(HighNameScores) = 1
    /\ link_result.requires_review

\* the orderings of the list of records
PoolOrderings ==
    LET n == Len(nics_records)
    IN  { [i \in 1..n |-> nics_records[p[i]]] :
            p \in { f \in [1..n -> 1..n] :
                      \A i, j \in 1..n : f[i] = f[j] => i = j } }

\* C17: the selection of the best match does not depend on the order of
\* the list: every ordering of the same records yields the same best
\* candidate and the same confidence.
C17_OrderIndependent ==
    pc = "linked" =>
      \A q \in PoolOrderings :
        /\ link(applicant, q, threshold).best_match = link_result.best_match
        /\ link(applicant, q, threshold).confidence = link_result.confidence

\* C18: for an empty list and any applicant, the result is unmatched, with
\* confidence 0.0, no best match, no review flag, and a first assumption
\* saying that no records were available.
C18_EmptyPool ==
    (pc = "linked" /\ nics_records = <<>>) =>
      /\ ~link_result.matched
      /\ link_result.confidence = 0
      /\ link_result.best_match = NoneDict
      /\ ~link_result.requires_review
      /\ Len(link_result.assumptions) >= 1
      /\ link_result.assumptions[1] = "No NICS records available for matching"

\* an empty list under the threshold 0.0, which the confidence 0.0 reaches
C18_Witness ==
    /\ pc = "linked"
    /\ nics_records = <<>>
    /\ applicant = JohnApplicant
    /\ threshold = 0
    /\ ~link_result.matched
    /\ Len(link_result.assumptions) = 1

\* the applicant and the only record of the list hold the same non-blank
\* text under a key
AgreeOn(key) ==
    /\ key \in DOMAIN applicant
    /\ key \in DOMAIN nics_records[1]
    /\ Strip(applicant[key]) # <<>>
    /\ applicant[key] = nics_records[1][key]

\* the applicant and the only record of the list hold different non-blank
\* DOBs
DobsDiffer ==
    /\ "dob" \in DOMAIN applicant
    /\ "dob" \in DOMAIN nics_records[1]
    /\ Strip(applicant.dob) # <<>>
    /\ Strip(nics_records[1].dob) # <<>>
    /\ Strip(applicant.dob) # Strip(nics_records[1].dob)

\* C19: when the applicant and the only record agree on name, state and
\* address but their DOBs differ, the DOB score is 0.0 and the result is
\* unmatched under the default threshold 0.7.
C19_DobMismatchPreventsMatch ==
    (/\ pc = "linked"
     /\ Len(nics_records) = 1
     /\ threshold = 70
     /\ AgreeOn("name") /\ AgreeOn("state") /\ AgreeOn("address")
     /\ DobsDiffer)
    => /\ link_result.field_scores # EmptyDict
       /\ link_result.field_scores.dob = 0
       /\ ~link_result.matched

\* a field is blank or absent in a dict
Blank(dict, key) == Strip(GetOr(dict, key, <<>>)) = <<>>

\* C20: for a non-empty list, field_scores has the four entries name, dob,
\* state and address, each in [0, 1]; a field blank or absent on the
\* applicant's side, or on the side of the returned record, is present
\* with 0.0; and the confidence is the weighted sum of the four entries.
C20_FieldScoresComplete ==
    (pc = "linked" /\ nics_records # <<>>) =>
      /\ link_result.field_scores # EmptyDict
      /\ DOMAIN link_result.field_scores = {"name", "dob", "state", "address"}
      /\ \A k \in {"name", "dob", "state", "address"} :
           /\ link_result.field_scores[k] \in 0..100
           /\ Blank(applicant, k) => link_result.field_scores[k] = 0
           /\ (link_result.best_match # NoneDict
                 /\ Blank(link_result.best_match, k))
                => link_result.field_scores[k] = 0
      /\ link_result.confidence
           = 10 * (4 * link_result.field_scores.name
                     + 3 * link_result.field_scores.dob
                     + 2 * link_result.field_scores.state
                     + 1 * link_result.field_scores.address)
               + FloatError(link_result.field_scores)

----------------------------------------------------------------------------
(* Claims on ProbabilisticLinkageEngine._calculate_field_scores *)

\* the text a dict holds under a key, empty when the key is absent
FieldText(dict, key) == GetOr(dict, key, <<>>)

\* both sides of the scoring run hold a non-blank text under a key
BothNonBlank(key) ==
    /\ Strip(FieldText(applicant, key)) # <<>>
    /\ Strip(FieldText(nics_record, key)) # <<>>

\* C21 as stated: the dob score is 1.0 exactly when both DOB strings are
\* non-blank and equal, and 0.0 otherwise; the state score is 1.0 exactly
\* when both states are non-blank and equal ignoring case, and 0.0 otherwise.
C21_ExactAsStated ==
    pc = "scored" =>
      /\ scores.dob \in {0, 100}
      /\ scores.dob = 100
           <=> /\ BothNonBlank("dob")
               /\ FieldText(applicant, "dob") = FieldText(nics_record, "dob")
      /\ scores.state \in {0, 100}
      /\ scores.state = 100
           <=> /\ BothNonBlank("state")
               /\ Upper(FieldText(applicant, "state"))
                    = Upper(FieldText(nics_record, "state"))

\* C21, amended: the dob score is 1.0 exactly when both DOB strings are
\* non-blank and equal once surrounding whitespace is removed, and 0.0
\* otherwise; the state score is 1.0 exactly when both states are non-blank
\* and equal once surrounding whitespace is removed and case is ignored, and
\* 0.0 otherwise.
C21_ExactAfterTrimming ==
    pc = "scored" =>
      /\ scores.dob \in {0, 100}
      /\ scores.dob = 100
           <=> /\ BothNonBlank("dob")
               /\ Strip(FieldText(applicant, "dob"))
                    = Strip(FieldText(nics_record, "dob"))
      /\ scores.state \in {0, 100}
      /\ scores.state = 100
           <=> /\ BothNonBlank("state")
               /\ Upper(Strip(FieldText(applicant, "state")))
                    = Upper(Strip(FieldText(nics_record, "state")))

\* the two sides write the same DOB and the same state differently, and
\* both fields score 1.0
C21_Witness ==
    /\ pc = "scored"
    /\ BothNonBlank("dob")
    /\ FieldText(applicant, "dob") # FieldText(nics_record, "dob")
    /\ scores.dob = 100
    /\ FieldText(applicant, "state") # FieldText(nics_record, "state")
    /\ scores.state = 100

----------------------------------------------------------------------------
(* Claims on the faults of link *)

\* x is not a string
NotAString(x) == x = None

\* the entry at position i of the list is malformed, or the applicant is:
\* None instead of a dict, or a dict with a field that is not a string
MalformedPair(i) ==
    \/ nics_records[i] = NoneDict
    \/ applicant = NoneDict
    \/ \E k \in {"name", "dob", "state", "address"} :
         \/ k \in DOMAIN nics_records[i] /\ NotAString(nics_records[i][k])
         \/ k \in DOMAIN applicant /\ NotAString(applicant[k])

\* C22: a fault raised while link scans the list surfaces as LinkageError:
\* link returns no LinkageResult, and no unmatched result stands in for the
\* fault.
C22_FaultSurfaces ==
    (pc # "link" /\ \E i \in 1..Len(nics_records) : MalformedPair(i)) =>
      /\ pc = "raised"
      /\ raised = "LinkageError"
      /\ link_result = NoLinkResult

\* a well-formed record that matches the applicant, followed by a malformed
\* one: the call raises
C22_Witness ==
    /\ pc = "raised"
    /\ raised = "LinkageError"
    /\ Len(nics_records) = 2
    /\ applicant = JohnApplicant
    /\ ~MalformedPair(1)
    /\ CandidateComposite(1) >= 7000
    /\ MalformedPair(2)

----------------------------------------------------------------------------
(* Claims on the range contract of the signals *)

\* a confidence or score in hundredths lies outside [0, 1]
OutOfRange(x) == x < 0 \/ x > 100

----------------------------------------------------------------------------
(* Claims on RapidFuzzMatcher.fuzzy_match *)

\* the token-set score of the candidate at position i against the query, in
\* hundredths
CandidateScore(i) ==
    TableScore(TokenSetTable, Lower(query), Lower(candidates[i]))

\* the positions of the candidates whose score reaches the threshold
Passing == { i \in 1..Len(candidates) : CandidateScore(i) >= fuzzy_threshold }

\* the candidates of a given score that reach the threshold, in input order
RECURSIVE PassingAt(_, _)
PassingAt(v, i) ==
    IF i > Len(candidates) THEN <<>>
    ELSE (IF i \in Passing /\ CandidateScore(i) = v
          THEN <<candidates[i]>>
          ELSE <<>>) \o PassingAt(v, i + 1)

\* the candidates of a given score in the returned list, in list order
RECURSIVE ReturnedAt(_, _)
ReturnedAt(v, i) ==
    IF i > Len(matches) THEN <<>>
    ELSE (IF matches[i][2] = v THEN <<matches[i][1]>> ELSE <<>>)
           \o ReturnedAt(v, i + 1)

\* C24: when fuzzy_match returns, the list holds exactly the candidates
\* whose score is at or above the threshold, each with its score, sorted by
\* score in descending order, candidates of equal score in their input
\* order; an empty query or an empty list of candidates yields the empty
\* list without an error.
C24_FilteredSortedStable ==
    pc = "fuzzy_matched" =>
      /\ (query = <<>> \/ candidates = <<>>) =>
           (raised = "none" /\ matches = <<>>)
      /\ (query # <<>> /\ raised = "none") =>
           /\ \A v \in 0..100 : ReturnedAt(v, 1) = PassingAt(v, 1)
           /\ \A i \in 1..Len(matches) : matches[i][2] >= fuzzy_threshold
           /\ \A i, j \in 1..Len(matches) :
                i < j => matches[i][2] >= matches[j][2]

\* two different candidates of equal score are returned in input order
\* behind a candidate of higher score that came last
C24_Witness ==
    /\ pc = "fuzzy_matched"
    /\ raised = "none"
    /\ Len(candidates) = 3
    /\ Len(matches) = 3
    /\ CandidateScore(1) = CandidateScore(2)
    /\ candidates[1] # candidates[2]
    /\ CandidateScore(3) > CandidateScore(1)
    /\ matches = << <<candidates[3], CandidateScore(3)>>,
                    <<candidates[1], CandidateScore(1)>>,
                    <<candidates[2], CandidateScore(2)>> >>

\* the number of candidates that reach the threshold and score above 0.8
HighConfidenceCount ==
    Cardinality({ i \in Passing : CandidateScore(i) > 80 })

\* C25: fuzzy_match raises FuzzyMatchAmbiguousError, and returns no list,
\* exactly when the number of results scoring above 0.8 is strictly greater
\* than the ambiguity threshold; otherwise it returns the list.
C25_AmbiguityRaises ==
    (pc = "fuzzy_matched" /\ query # <<>> /\ candidates # <<>>) =>
      /\ raised = "FuzzyMatchAmbiguousError"
           <=> HighConfidenceCount > ambiguity_threshold
      /\ raised = "FuzzyMatchAmbiguousError" => matches = <<>>
      /\ raised # "FuzzyMatchAmbiguousError" =>
           (raised = "none" /\ Len(matches) = Cardinality(Passing))

\* as many high-confidence results as the ambiguity threshold allows: the
\* list is returned
C25_Witness ==
    /\ pc = "fuzzy_matched"
    /\ query # <<>>
    /\ ambiguity_threshold = 2
    /\ HighConfidenceCount = 2
    /\ raised = "none"
    /\ Len(matches) >= 2

----------------------------------------------------------------------------
(* Claims on the review flag of the decision *)

\* C29: in every result of the decision, requires_manual_review is true if
\* and only if the decision is MANUAL_REVIEW; a DENIED or APPROVED result
\* has it false, also when a review flag was raised before the rule that
\* ended the evaluation.
C29_ReviewFlagIffManualReview ==
    pc = "done" =>
      (result.requires_manual_review <=> result.decision = "MANUAL_REVIEW")

\* a denial by the risk rule after the age rule had flagged an unknown age
C29_Witness ==
    /\ pc = "done"
    /\ InputAge = NoAge
    /\ risk_assessment.risk_score > 70
    /\ result.decision = "DENIED"
    /\ ~result.requires_manual_review

----------------------------------------------------------------------------
\* C28: a request to POST /eligibility that supplies neither
\* id_image_base64 nor id_image_url is answered with status 400, a request
\* that supplies only id_image_url with status 501, and in both cases the
\* engine is not invoked.
C28_MissingImageRejected ==
    pc = "responded" =>
        /\ (~Given(request.id_image_base64) /\ ~Given(request.id_image_url))
               => (response.status_code = 400 /\ ~engine_invoked)
        /\ (~Given(request.id_image_base64) /\ Given(request.id_image_url))
               => (response.status_code = 501 /\ ~engine_invoked)

----------------------------------------------------------------------------
\* the assessment has made the call
Called(call) == \E i \in DOMAIN calls : calls[i] = call

\* extract has returned an OCRResult to assess_eligibility
ExtractReturned ==
    /\ Called(ExtractCall)
    /\ ~(pc = "raised" /\ raised \in ExtractErrors)

\* the image passes the three checks of extract
ImageAcceptable ==
    /\ image.quality >= settings.image_quality_threshold
    /\ image.avg_confidence >= settings.confidence_threshold
    /\ settings.enable_tamper_detection => ~image.tampered

\* C30: every OCRResult that extract returns has quality_score >=
\* image_quality_threshold, confidence >= the adapter's confidence threshold
\* and, when tamper detection is enabled, tamper_detected = false; in every
\* other case extract raises one of its four errors, so assess_eligibility
\* produces no EligibilityResult and runs neither linkage nor risk
\* assessment.
C30_ExtractReturnsOnlyAcceptable ==
    /\ ExtractReturned =>
          /\ ocr_result.quality_score >= settings.image_quality_threshold
          /\ ocr_result.confidence >= settings.confidence_threshold
          /\ settings.enable_tamper_detection => ~ocr_result.tamper_detected
    /\ (Called(ExtractCall) /\ ~ImageAcceptable) =>
          /\ pc = "raised"
          /\ raised \in ExtractErrors
          /\ result = NoResult
          /\ ~Called(LinkCall)
          /\ ~Called(RiskCall)

\* an image at both thresholds, with tamper detection enabled, has been
\* extracted and assessed to the end
C30_Witness ==
    /\ pc = "done"
    /\ ExtractReturned
    /\ settings.enable_tamper_detection
    /\ ocr_result.quality_score = settings.image_quality_threshold
    /\ ocr_result.confidence = settings.confidence_threshold
    /\ result # NoResult

----------------------------------------------------------------------------
\* the place of a call in the pipeline of an assessment
CallOrder ==
    <<LoadCall, ExtractCall, LinkCall, RiskCall, DecideCall>>

Place(call) == CHOOSE k \in DOMAIN CallOrder : CallOrder[k] = call

\* C26, as stated: pool loading, perception extraction and risk scoring
\* complete before the core is invoked, so no external call is issued once
\* link has started.
C26_AllIOBeforeCore ==
    \A i, j \in DOMAIN calls :
        (i < j /\ calls[i] = LinkCall) => calls[j] \notin ExternalCalls

\* C26, amended: pool loading and perception extraction complete before
\* link is invoked, and risk scoring is issued after link has returned and
\* completes before decide is invoked; each call is complete when the next
\* one is made.
C26_IOAroundCore ==
    /\ \A i, j \in DOMAIN calls : i < j => Place(calls[i]) < Place(calls[j])
    /\ Called(DecideCall) => (Called(LinkCall) /\ Called(RiskCall))
    /\ Called(RiskCall) => Called(LinkCall)
    /\ Called(LinkCall) => Called(ExtractCall)

\* an assessment ran to its decision, over a pool loaded from the file
C26_Witness ==
    /\ pc = "done"
    /\ calls = CallOrder
    /\ result # NoResult

----------------------------------------------------------------------------
\* what link does for the request's applicant when it runs alone on the pool
Alone(p) ==
    link_call(runs[p].ocr_result.text_fields, nics_records, threshold)

\* C27: assessments that run concurrently on the same engine do not
\* interfere: under every interleaving each assessment's LinkageResult and
\* decision equal what the same inputs produce when run alone, and the
\* shared pool is left unchanged.
C27_NoInterference ==
    /\ \A e \in DOMAIN engines : engines[e].nics_records = nics_records
    /\ \A p \in DOMAIN runs :
          /\ runs[p].pc \in {"assess_risk", "decide", "done"} =>
                /\ Alone(p).raised = "none"
                /\ runs[p].link_result = Alone(p).link_result
          /\ runs[p].pc = "raised" => Alone(p).raised = "LinkageError"
          /\ runs[p].pc = "done" =>
                runs[p].result =
                    _make_decision(runs[p].ocr_result,
                                   runs[p].risk_assessment,
                                   AsLinkageResult(Alone(p).link_result),
                                   runs[p].ocr_result.text_fields, now)

\* two requests for different applicants scanned the pool of one engine at
\* the same time and both were decided, differently
C27_Witness ==
    /\ \A p \in Runs : runs[p].pc = "done" /\ runs[p].overlapped
    /\ runs[1].engine = runs[2].engine
    /\ runs[1].link_result # runs[2].link_result
    /\ runs[1].result.decision # runs[2].result.decision

====
